---- MODULE Spec2Model ----
(***************************************************************************)
(* Verification model of the frontend-master exercise collection.          *)
(*                                                                         *)
(*  Part I    MyPromise (javascript-problems/promises/promises.js) run on  *)
(*            a JavaScript event loop: one macrotask at a time, the        *)
(*            microtask queue drained when the call stack is empty, timer  *)
(*            callbacks only when the microtask queue is empty.            *)
(*  Part II   Promise.myRace / myAny / myAll / myAllSettled over native    *)
(*            promises, whose reactions run as microtasks.                 *)
(*  Part III  memoize (javascript-problems/memoize/memoize.js).            *)
(*  Part IV   debounce and throttle (javascript-problems/debounce,         *)
(*            javascript-problems/throttle) on a host clock with timers    *)
(*            that run at or after their due time.                         *)
(*  Part V    the Connect Four reducer (react-problems/.../connect-four).  *)
(*  Part VI   the Wordle key handler (react-problems/.../wordle).          *)
(*  Part VII  the Quiz component (react-problems/.../quiz).                *)
(*  Part VIII the Memory component (react-problems/.../memory).            *)
(*  Part IX   the Crypto Prices component (.../crypto-prices).             *)
(*  Part X    the Phone Input component (react-problems/.../phone-input).  *)
(*  Part XI   the EventTarget class (dom-manipulation, event target).      *)
(*  Part XII  the Tier List handlers (dom-manipulation/tier-list).         *)
(*  Part XIII the Stopwatch handlers (dom-manipulation/stopwatch).         *)
(*  Part XIV  the Typeahead handlers (dom-manipulation/typeahead).         *)
(*  Part XV   the Todo List handlers (dom-manipulation, todo list).        *)
(*  Part XVI  the Infinite Scroll handlers (.../infinite-scroll).          *)
(*  Part XVII Function.prototype.myCall (javascript-problems/this-binding).*)
(*  Part XVIII the test framework: describe, it, expect.                   *)
(*  Part XIX  deepEquals (javascript-problems/deep-equals).                *)
(*                                                                         *)
(* The exercises share no state: each has its own specification, in which  *)
(* the variables of the other exercises stay at rest.                      *)
(***************************************************************************)
EXTENDS Integers, Sequences, FiniteSets, TLC

\* ------------------------------------------------------------- bounds
MaxPromises == 2   \* MyPromise objects constructed in one run
MaxCalls == 2      \* calls of resolve/reject capabilities made by user code
MaxTimers == 1     \* setTimeout callbacks registered by user code

\* the values user code passes and throws: two, to tell "same" from "changed"
Values == {1, 2}
Null   == 0        \* #value = null
PIds   == 1 .. MaxPromises

\* STATE
PENDING   == "pending"
FULFILLED == "fulfilled"
REJECTED  == "rejected"

\* what a handler argument of then() can be: absent, a function returning
\* val + 1, a function throwing val + 1 (the shapes of the sample usage)
HandlerKinds == {"none", "ret", "thr"}

VARIABLES
  state,               \* MyPromise.#state, per promise id
  value,               \* MyPromise.#value
  fulfilledCallbacks,  \* MyPromise.#fulfilledCallbacks: Seq of child ids (the
                       \* handleOnFullfill closure of that child's then())
  rejectedCallbacks,   \* MyPromise.#rejectedCallbacks
  onFulfilled,         \* child id -> the onFulfilled argument of its then()
  onRejected,          \* child id -> the onRejected argument of its then()
  parent,              \* child id -> the promise then() was called on (0: root)
  created,             \* number of promises constructed so far
  executing,           \* root promise whose executor is running now (0: none)
  microtasks,          \* the microtask queue (FIFO)
  running,             \* a macrotask (script or timer callback) is running
  timers,              \* timer callbacks pending
  timersFired,         \* timer callbacks run so far
  calls,               \* capability calls made so far
  runs,                \* child id -> how often each of its handlers has run
  runLog               \* how each handler run happened

\* Part II: the promise combinators on native promises
VARIABLES
  nInputs,         \* promises.length
  np,              \* native promise id -> [st, val]; ids 1..nInputs are the inputs
  reactions,       \* native promise id -> the reactions then() registered on it
  jobs,            \* the microtask queue of the combinator run
  result,          \* the promise the combinator returned: [st, val]
  resolvedValues,  \* the combinator's resolvedValues array
  resolvedCount,   \* the combinator's resolvedCount
  called,          \* which combinator has been called ("none": not yet)
  task,            \* a macrotask is running
  deferred,        \* inputs whose settlement user code has queued as a microtask
  settleOrder,     \* the inputs in the order they settled
  settledAtCall    \* how many inputs had settled when the combinator was called

\* Part III: memoize
VARIABLES
  resolver,        \* the resolver argument of memoize: "none" or a key function
  cache,           \* the Map: set of [key, val] entries, one per key
  callCount,       \* memoisedFunction.callCount
  last,            \* the last operation on the memoized function, with its result
  live,            \* keys called since the last delete of that key or clear
  storedAtMiss     \* key -> the value the wrapped function returned at the
                   \* most recent miss for that key

\* Part IV: the host clock and timer table, debounce, throttle
VARIABLES
  now,             \* Date.now(), in milliseconds
  onTime,          \* the host runs every timer callback at its due time
  pending,         \* setTimeout callbacks not yet run or cleared
  nextId,          \* the id the next setTimeout returns
  delay,           \* the delay argument of debounce / throttle
  immediate,       \* the immediate argument of debounce
  timeoutId,       \* debounce: let timeoutId
  burst,           \* debounce: the calls made since the last gap of >= delay
  closed,          \* debounce: invocation counts of the bursts that ended
  dLast,           \* debounce: the last call or timer expiry, with what it did
  timerID,         \* throttle: let timerID
  lastCalledTime,  \* throttle: let lastCalledTime
  invokedAt,       \* throttle: when the callback last ran (-1: never)
  held,            \* throttle: the calls held back since the last invocation
  tLast            \* throttle: the last invocation of the callback

\* Part V: the Connect Four reducer state
VARIABLES
  board,           \* state.board: column -> row -> cell, row 0 on top
  currentPlayer,   \* state.currentPlayer
  winner,          \* state.winner
  isGameOver,      \* state.isGameOver
  plies,           \* moves accepted since the run started or restarted
  gLast            \* the last action dispatched, and the state it met

\* Part VI: the Wordle component state
VARIABLES
  solution,        \* useState(""): the target word
  guesses,         \* useState(Array(NUM_GUESSES).fill(null))
  currentGuess,    \* useState(""): the guess being typed
  fetched,         \* the word-list request: "pending", "failed" or "done"
  wLast            \* the last key event, and the state it met

\* Part VII: the Quiz component state
VARIABLES
  questions,              \* questions.length: 0 until the quiz request resolves
  currentQuestionIndex,   \* useState(0)
  selectedAnswers,        \* useState([]): question index -> answer index
  firstPick,              \* the first answer clicked for each question
  qLast                   \* the last click, and the selections it met

\* Part VIII: the Memory component state
VARIABLES
  tiles,           \* useState(shuffle(...)): tile index -> colour
  selectedTiles,   \* useState([])
  matchedTiles,    \* useState([])
  effectPending,   \* the effect of the latest render has not run yet
  memoryTimer,     \* the timer the effect set: its selection, ms left
  hasCleanup,      \* the last effect returned a cleanup
  mounted,         \* the component is mounted
  yLast            \* the last click or timer callback, and what it met

\* Part IX: the Crypto Prices component state
VARIABLES
  lastPage,      \* the number of the last page the API serves
  currentPage,   \* useState(0)
  coins,         \* useState([]): the page whose coins are shown, -1 for none
  isNextPage,    \* useState(false)
  requests,      \* page -> requests for it in flight
  fetchFailed    \* whether a catch block has logged an error

\* Part X: the Phone Input component state
VARIABLES
  inputValue,   \* useState("")
  iLast         \* the last change event or submit click, and the digits of its text

\* Part XI: two EventTarget instances
VARIABLES
  eventListenerMap,   \* target -> name -> undefined or a Set of callbacks
  registered,         \* target -> name -> the callbacks added and not removed since
  eLast               \* the last method call, and what it met

\* Part XII: the Tier List page
VARIABLES
  children,      \* drop zone -> its items, in child order
  draggedItem,   \* let draggedItem
  lLast          \* the last event, and the page it met

\* Part XIII: the Stopwatch page and script state
VARIABLES
  startDisabled,                       \* startButton.disabled
  stopDisabled,                        \* stopButton.disabled
  resetDisabled,                       \* resetButton.disabled
  textContent,                         \* timer.textContent
  frameRequested,                      \* the animation frame of timerID is pending
  lastStartTime,                       \* let lastStartTime
  millisecondsPassedBeforeLastStart,   \* let millisecondsPassedBeforeLastStart
  clock,                               \* Date.now()
  phase                                \* idle, running or paused, by the clicks so far

\* Part XIV: the Typeahead page and script state
VARIABLES
  typeaheadValue,       \* typeahead.value
  typeaheadTimeoutId,   \* let timeoutId
  suggestionsList,      \* the suggestions shown in #suggestions-list
  requested,            \* the texts whose requests are in flight
  lastInput,            \* the most recent input event: when, the text it left, its number
  aLast                 \* the last fetch issued, and what it met

\* Part XV: the Todo List page and script state
VARIABLES
  todoInputValue,      \* todoInput.value
  addButtonDisabled,   \* addButton.disabled
  todoListItems,       \* the children of #todo-list
  todoItemtext,        \* the global onInputChange assigns
  uncaught,            \* exceptions the handlers let escape
  oLast                \* the last event, and the page the add click met

\* Part XVI: the Infinite Scroll page and script state
VARIABLES
  testimonialCount,   \* the testimonials the API holds
  afterID,            \* let afterID
  canFetchOnScroll,   \* let canFetchOnScroll = true
  feed,               \* the ids of the testimonials in the container
  listening,          \* whether handleScroll is a scroll listener
  scrollRequests,     \* the urls of the requests in flight
  finalReceived,      \* a response with hasNext = false was read
  failedWith,         \* the first failed request, and the page it met
  scrolls,            \* scroll events so far
  uLast               \* the last event, and what a scroll met

\* Part XVII: the target object of myCall
VARIABLES
  targetNames,        \* the own string keys of thisContext
  targetSymbols,      \* the own symbol keys of thisContext
  targetExtensible,   \* Object.isExtensible(thisContext)
  symbolsCreated,     \* Symbol() calls so far
  bLast               \* the last call: its function, its symbol, the keys it met

\* Part XVIII: one describe() call of the test framework
VARIABLES
  suiteFunction,   \* the func describe() is given: cases of assertions
  testStage,       \* where the call is: describe, suite, case, returned
  testCase,        \* the it() call the suite function has reached
  testAssertion,   \* the expect() call the case function has reached
  console,         \* the lines logged
  assertionsRun,   \* the assertions run, as <<case, assertion>>
  casesRun         \* the cases whose it() was called

\* Part XIX: one comparison by deepEquals
VARIABLES
  firstValue,    \* the first value compared
  secondValue,   \* the second value compared
  sameObject,    \* whether the two values are one object
  compared       \* the results of deepEquals on the pair, both ways

gvars == <<board, currentPlayer, winner, isGameOver, plies, gLast>>
wvars == <<solution, guesses, currentGuess, fetched, wLast>>
hvars == <<now, onTime, pending, nextId, delay>>
dvars == <<immediate, timeoutId, burst, closed, dLast>>
tvars == <<timerID, lastCalledTime, invokedAt, held, tLast>>

cvars == <<nInputs, np, reactions, jobs, result, resolvedValues, resolvedCount,
           called, task, deferred, settleOrder, settledAtCall>>
mvars == <<resolver, cache, callCount, last, live, storedAtMiss>>

pvars == <<state, value, fulfilledCallbacks, rejectedCallbacks, onFulfilled,
           onRejected, parent, created, executing, microtasks, running,
           timers, timersFired, calls, runs, runLog>>
qvars == <<questions, currentQuestionIndex, selectedAnswers, firstPick, qLast>>
yvars == <<tiles, selectedTiles, matchedTiles, effectPending, memoryTimer, hasCleanup, mounted, yLast>>
kvars == <<lastPage, currentPage, coins, isNextPage, requests, fetchFailed>>
ivars == <<inputValue, iLast>>
evars == <<eventListenerMap, registered, eLast>>
lvars == <<children, draggedItem, lLast>>
svars == <<startDisabled, stopDisabled, resetDisabled, textContent, frameRequested, lastStartTime, millisecondsPassedBeforeLastStart, clock, phase>>
avars == <<typeaheadValue, typeaheadTimeoutId, suggestionsList, requested, lastInput, aLast>>
ovars == <<todoInputValue, addButtonDisabled, todoListItems, todoItemtext, uncaught, oLast>>
nvars == <<testimonialCount, afterID, canFetchOnScroll, feed, listening, scrollRequests, finalReceived, failedWith, scrolls, uLast>>
bvars == <<targetNames, targetSymbols, targetExtensible, symbolsCreated, bLast>>
fvars == <<suiteFunction, testStage, testCase, testAssertion, console, assertionsRun, casesRun>>
zvars == <<firstValue, secondValue, sameObject, compared>>
\* the state of the page exercises
uvars == <<qvars, yvars, kvars, ivars, evars, lvars, svars, avars, ovars, nvars, bvars, fvars, zvars>>
oldvars == <<pvars, cvars, mvars, dvars, tvars, gvars, wvars>>
vars == <<pvars, cvars, mvars, hvars, dvars, tvars, gvars, wvars, uvars>>

\* what each exercise leaves alone
RestOfPromise     == <<cvars, mvars, hvars, dvars, tvars, gvars, wvars, uvars>>
RestOfCombinators == <<pvars, mvars, hvars, dvars, tvars, gvars, wvars, uvars>>
RestOfMemoize     == <<pvars, cvars, hvars, dvars, tvars, gvars, wvars, uvars>>
RestOfDebounce    == <<pvars, cvars, mvars, tvars, gvars, wvars, uvars>>
RestOfThrottle    == <<pvars, cvars, mvars, dvars, gvars, wvars, uvars>>
RestOfConnectFour == <<pvars, cvars, mvars, hvars, dvars, tvars, wvars, uvars>>
RestOfWordle      == <<pvars, cvars, mvars, hvars, dvars, tvars, gvars, uvars>>
RestOfQuiz == <<oldvars, hvars, yvars, kvars, ivars, evars, lvars, svars, avars, ovars, nvars, bvars, fvars, zvars>>
RestOfMemory == <<oldvars, hvars, qvars, kvars, ivars, evars, lvars, svars, avars, ovars, nvars, bvars, fvars, zvars>>
RestOfCrypto == <<oldvars, hvars, qvars, yvars, ivars, evars, lvars, svars, avars, ovars, nvars, bvars, fvars, zvars>>
RestOfPhone == <<oldvars, hvars, qvars, yvars, kvars, evars, lvars, svars, avars, ovars, nvars, bvars, fvars, zvars>>
RestOfEventTarget == <<oldvars, hvars, qvars, yvars, kvars, ivars, lvars, svars, avars, ovars, nvars, bvars, fvars, zvars>>
RestOfTierList == <<oldvars, hvars, qvars, yvars, kvars, ivars, evars, svars, avars, ovars, nvars, bvars, fvars, zvars>>
RestOfStopwatch == <<oldvars, hvars, qvars, yvars, kvars, ivars, evars, lvars, avars, ovars, nvars, bvars, fvars, zvars>>
RestOfTypeahead == <<oldvars, qvars, yvars, kvars, ivars, evars, lvars, svars, ovars, nvars, bvars, fvars, zvars>>
RestOfTodoList == <<oldvars, hvars, qvars, yvars, kvars, ivars, evars, lvars, svars, avars, nvars, bvars, fvars, zvars>>
RestOfInfiniteScroll == <<oldvars, hvars, qvars, yvars, kvars, ivars, evars, lvars, svars, avars, ovars, bvars, fvars, zvars>>
RestOfMyCall == <<oldvars, hvars, qvars, yvars, kvars, ivars, evars, lvars, svars, avars, ovars, nvars, fvars, zvars>>
RestOfTestFramework == <<oldvars, hvars, qvars, yvars, kvars, ivars, evars, lvars, svars, avars, ovars, nvars, bvars, zvars>>
RestOfDeepEquals == <<oldvars, hvars, qvars, yvars, kvars, ivars, evars, lvars, svars, avars, ovars, nvars, bvars, fvars>>

\* The heap the promise methods work on, with the event-loop facts a handler
\* run is logged with.  frames: promise methods (constructor, then, #resolve,
\* #reject) on the call stack at this point.
Heap(fr) ==
  [state |-> state, value |-> value, fcb |-> fulfilledCallbacks,
   rcb |-> rejectedCallbacks, onF |-> onFulfilled, onR |-> onRejected,
   par |-> parent, micro |-> microtasks, runs |-> runs, log |-> runLog,
   frames |-> fr, task |-> running, fired |-> timersFired]

\* queueMicrotask(() => {...}) inside handleOnFullfill / handleOnRejected
QueueMicrotask(H, kind, c) ==
  [H EXCEPT !.micro = Append(@, [kind |-> kind, child |-> c, fired |-> H.fired])]

RECURSIVE Settle(_, _, _, _)
RECURSIVE ForEach(_, _, _, _)

\* the handler call inside the microtask: resolve(onFulfilled(this.#value)),
\* resolve(onRejected(this.#value)), catch (error) { reject(error) }
RunHandler(H, job) ==
  LET c  == job.child
      p  == H.par[c]
      h  == IF job.kind = "F" THEN H.onF[c] ELSE H.onR[c]
      v  == H.value[p]
      H1 == [H EXCEPT !.runs[c][job.kind] = @ + 1,
                      !.log = @ \cup {[child |-> c, kind |-> job.kind,
                                       inTask |-> H.task, frames |-> H.frames,
                                       fired |-> H.fired - job.fired]}]
  IN  IF h = "ret" THEN Settle(H1, c, FULFILLED, v + 1)
                   ELSE Settle(H1, c, REJECTED, v + 1)

\* a handleOnFullfill that calls the handler at once instead of queueing it
HandleOnFullfillSync(H, c) ==
  IF H.onF[c] = "none"
    THEN Settle(H, c, FULFILLED, H.value[H.par[c]])
    ELSE RunHandler(H, [kind |-> "F", child |-> c, fired |-> H.fired])

\* handleOnFullfill of the then() that returned c
HandleOnFullfill(H, c) ==
  IF H.onF[c] = "none"
    THEN Settle(H, c, FULFILLED, H.value[H.par[c]])
    ELSE QueueMicrotask(H, "F", c)

\* handleOnRejected of the then() that returned c
HandleOnRejected(H, c) ==
  IF H.onR[c] = "none"
    THEN Settle(H, c, REJECTED, H.value[H.par[c]])
    ELSE QueueMicrotask(H, "R", c)

\* callbacks.forEach((callback) => callback())
ForEach(H, cbs, kind, i) ==
  IF i > Len(cbs) THEN H
  ELSE ForEach(IF kind = "F" THEN HandleOnFullfill(H, cbs[i])
                             ELSE HandleOnRejected(H, cbs[i]),
               cbs, kind, i + 1)

\* #resolve(value) (st = FULFILLED) and #reject(value) (st = REJECTED): no
\* test of the current state, and the callback lists are kept
Settle(H, p, st, v) ==
  LET H1 == [H EXCEPT !.value[p] = v, !.state[p] = st, !.frames = @ + 1]
      H2 == IF st = FULFILLED THEN ForEach(H1, H1.fcb[p], "F", 1)
                              ELSE ForEach(H1, H1.rcb[p], "R", 1)
  IN  [H2 EXCEPT !.frames = H.frames]

\* the executor then() passes to new MyPromise: the switch on this.#state
ThenExecutor(H, p, c) ==
  CASE H.state[p] = PENDING   -> [H EXCEPT !.fcb[p] = Append(@, c),
                                           !.rcb[p] = Append(@, c)]
    [] H.state[p] = FULFILLED -> HandleOnFullfill(H, c)
    [] H.state[p] = REJECTED  -> HandleOnRejected(H, c)

\* write a heap back
Store(H) ==
  /\ state' = H.state
  /\ value' = H.value
  /\ fulfilledCallbacks' = H.fcb
  /\ rejectedCallbacks' = H.rcb
  /\ onFulfilled' = H.onF
  /\ onRejected' = H.onR
  /\ parent' = H.par
  /\ microtasks' = H.micro
  /\ runs' = H.runs
  /\ runLog' = H.log

InitPromise ==
  /\ state = [p \in PIds |-> PENDING]
  /\ value = [p \in PIds |-> Null]
  /\ fulfilledCallbacks = [p \in PIds |-> <<>>]
  /\ rejectedCallbacks = [p \in PIds |-> <<>>]
  /\ onFulfilled = [p \in PIds |-> "none"]
  /\ onRejected = [p \in PIds |-> "none"]
  /\ parent = [p \in PIds |-> 0]
  /\ created = 0
  /\ executing = 0
  /\ microtasks = <<>>
  /\ running = TRUE
  /\ timers = 0
  /\ timersFired = 0
  /\ calls = 0
  /\ runs = [p \in PIds |-> [F |-> 0, R |-> 0]]
  /\ runLog = {}

Roots == {p \in 1 .. created : parent[p] = 0}

\* new MyPromise(executorFunc): the executor starts
NewPromise ==
  /\ running /\ executing = 0 /\ created < MaxPromises
  /\ created' = created + 1
  /\ executing' = created + 1
  /\ UNCHANGED <<state, value, fulfilledCallbacks, rejectedCallbacks,
                 onFulfilled, onRejected, parent, microtasks, running, timers,
                 timersFired, calls, runs, runLog>>
  /\ UNCHANGED RestOfPromise

\* the executor returns normally
ExecutorReturn ==
  /\ running /\ executing # 0
  /\ executing' = 0
  /\ UNCHANGED <<state, value, fulfilledCallbacks, rejectedCallbacks,
                 onFulfilled, onRejected, parent, created, microtasks, running,
                 timers, timersFired, calls, runs, runLog>>
  /\ UNCHANGED RestOfPromise

\* the executor throws: catch (error) { this.#reject(error) }
ExecutorThrow(v) ==
  /\ running /\ executing # 0
  /\ Store(Settle(Heap(1), executing, REJECTED, v))
  /\ executing' = 0
  /\ UNCHANGED <<created, running, timers, timersFired, calls>>
  /\ UNCHANGED RestOfPromise

\* user code calls the resolve capability of root promise p, in the executor
\* or later through a kept reference
CallResolve(p, v) ==
  /\ running /\ p \in Roots /\ calls < MaxCalls
  /\ executing \in {0, p}
  /\ Store(Settle(Heap(0), p, FULFILLED, v))
  /\ calls' = calls + 1
  /\ UNCHANGED <<created, executing, running, timers, timersFired>>
  /\ UNCHANGED RestOfPromise

\* user code calls the reject capability of root promise p
CallReject(p, v) ==
  /\ running /\ p \in Roots /\ calls < MaxCalls
  /\ executing \in {0, p}
  /\ Store(Settle(Heap(0), p, REJECTED, v))
  /\ calls' = calls + 1
  /\ UNCHANGED <<created, executing, running, timers, timersFired>>
  /\ UNCHANGED RestOfPromise

\* p.then(onFulfilled, onRejected), called by user code outside any executor;
\* catch(h) is Then(p, "none", h)
Then(p, f, r) ==
  /\ running /\ created < MaxPromises
  /\ p \in 1 .. created /\ executing = 0
  /\ LET c  == created + 1
         H0 == Heap(1)
         H1 == [H0 EXCEPT !.onF[c] = f, !.onR[c] = r, !.par[c] = p]
     IN  Store(ThenExecutor(H1, p, c))
  /\ created' = created + 1
  /\ UNCHANGED <<executing, running, timers, timersFired, calls>>
  /\ UNCHANGED RestOfPromise

\* user code registers a timer callback
SetTimeout ==
  /\ running /\ executing = 0 /\ timers + timersFired < MaxTimers
  /\ timers' = timers + 1
  /\ UNCHANGED <<state, value, fulfilledCallbacks, rejectedCallbacks,
                 onFulfilled, onRejected, parent, created, executing,
                 microtasks, running, timersFired, calls, runs, runLog>>
  /\ UNCHANGED RestOfPromise

\* the running macrotask ends: the call stack is empty
EndTask ==
  /\ running /\ executing = 0
  /\ running' = FALSE
  /\ UNCHANGED <<state, value, fulfilledCallbacks, rejectedCallbacks,
                 onFulfilled, onRejected, parent, created, executing,
                 microtasks, timers, timersFired, calls, runs, runLog>>
  /\ UNCHANGED RestOfPromise

\* the event loop runs the oldest microtask
RunMicrotask ==
  /\ ~running /\ microtasks # <<>>
  /\ LET H0 == Heap(0)
     IN  Store(RunHandler([H0 EXCEPT !.micro = Tail(@)], Head(microtasks)))
  /\ UNCHANGED <<created, executing, running, timers, timersFired, calls>>
  /\ UNCHANGED RestOfPromise

\* the event loop runs a timer callback: only with no microtask left
TimerFire ==
  /\ ~running /\ microtasks = <<>> /\ timers > 0
  /\ timers' = timers - 1
  /\ timersFired' = timersFired + 1
  /\ running' = TRUE
  /\ UNCHANGED <<state, value, fulfilledCallbacks, rejectedCallbacks,
                 onFulfilled, onRejected, parent, created, executing,
                 microtasks, calls, runs, runLog>>
  /\ UNCHANGED RestOfPromise

\* ======================================================================
\* Part II  Promise.myRace / myAny / myAll / myAllSettled on native promises.
\* The inputs are native promises user code settles; then(), catch() and
\* finally() register reactions, and a settled promise's reactions run as
\* microtasks in the order they were queued.
\* ======================================================================
MaxInputs == 2     \* longest input list

\* JavaScript values, as records
Prim(n) == [k |-> "prim", n |-> n]
Undefined == [k |-> "undefined"]
Hole == [k |-> "hole"]
AllRejected == [k |-> "string", s |-> "all promises rejected"]
FulfilledDescriptor(v) == [k |-> "object", status |-> "fulfilled", value |-> v]
RejectedDescriptor(e) == [k |-> "object", status |-> "rejected", error |-> e]

\* new Array(len) and []: a length and the slots that have been assigned
NewArray(len) == [k |-> "array", len |-> len, items |-> [i \in 1 .. MaxInputs |-> Hole]]
\* array[index] = v, index counted from 1 here
ArraySet(a, i, v) ==
  [a EXCEPT !.len = IF i > @ THEN i ELSE @, !.items[i] = v]

NIds == 1 .. 4 * MaxInputs
\* the promise stage k of input i's chain: then() is 1, catch() 2, finally() 3
Derived(i, k) == k * MaxInputs + i

NoHandler == [h |-> "none", index |-> 0]
Handler(h, i) == [h |-> h, index |-> i]

Native ==
  [n |-> nInputs, np |-> np, react |-> reactions, jobs |-> jobs,
   result |-> result, rv |-> resolvedValues, rc |-> resolvedCount,
   order |-> settleOrder]

ReactionJob(r, st, v) == [kind |-> "reaction", r |-> r, st |-> st, val |-> v, input |-> 0]
SettleJob(i, st, v) ==
  [kind |-> "settle", r |-> [onF |-> NoHandler, onR |-> NoHandler, derived |-> 0],
   st |-> st, val |-> v, input |-> i]

\* a native promise settles: once only, and its reactions are queued in order
NSettle(N, id, st, v) ==
  IF N.np[id].st # PENDING THEN N
  ELSE [N EXCEPT !.np[id] = [st |-> st, val |-> v],
                 !.order = IF id <= MaxInputs THEN Append(@, id) ELSE @,
                 !.jobs = @ \o [j \in 1 .. Len(N.react[id]) |->
                                  ReactionJob(N.react[id][j], st, v)],
                 !.react[id] = <<>>]

\* promise.then(onF, onR) returning promise d; catch(h) is then(absent, h)
NThen(N, p, onF, onR, d) ==
  LET r == [onF |-> onF, onR |-> onR, derived |-> d]
  IN  IF N.np[p].st = PENDING
        THEN [N EXCEPT !.react[p] = Append(@, r)]
        ELSE [N EXCEPT !.jobs = Append(@, ReactionJob(r, N.np[p].st, N.np[p].val))]

\* res(v) and rej(v) of the returned promise: the first call wins
Res(N, v) ==
  IF N.result.st # PENDING THEN N
  ELSE [N EXCEPT !.result = [st |-> FULFILLED, val |-> v]]
Rej(N, v) ==
  IF N.result.st # PENDING THEN N
  ELSE [N EXCEPT !.result = [st |-> REJECTED, val |-> v]]

\* myAny: .catch((err) => { if (index === promises.length - 1) rej(...) })
AnyCatch(N, i) ==
  IF i = N.n THEN Rej(N, AllRejected) ELSE N

\* myAll: the fulfilment callback
AllThenPush(N, i, v) ==
  LET N1 == [N EXCEPT !.rv = ArraySet(@, N.rc + 1, v), !.rc = @ + 1]
  IN  IF N1.rc = N.n THEN Res(N1, N1.rv) ELSE N1

AllThen(N, i, v) ==
  LET N1 == [N EXCEPT !.rv = ArraySet(@, i, v), !.rc = @ + 1]
  IN  IF N1.rc = N.n THEN Res(N1, N1.rv) ELSE N1

\* myAllSettled: the three callbacks
SettledThen(N, i, v) == [N EXCEPT !.rv = ArraySet(@, i, FulfilledDescriptor(v))]
SettledCatch(N, i, e) == [N EXCEPT !.rv = ArraySet(@, i, RejectedDescriptor(e))]
SettledFinallyEarly(N) ==
  LET N1 == [N EXCEPT !.rc = @ + 1]
  IN  IF N1.rc >= N.n - 1 THEN Res(N1, N1.rv) ELSE N1
SettledFinally(N) ==
  LET N1 == [N EXCEPT !.rc = @ + 1]
  IN  IF N1.rc = N.n THEN Res(N1, N1.rv) ELSE N1

\* the callbacks the combinators pass to then / catch / finally
CallHandler(N, h, v) ==
  CASE h.h = "res"            -> Res(N, v)
    [] h.h = "rej"            -> Rej(N, v)
    [] h.h = "anyCatch"       -> AnyCatch(N, h.index)
    [] h.h = "allThen"        -> AllThen(N, h.index, v)
    [] h.h = "settledThen"    -> SettledThen(N, h.index, v)
    [] h.h = "settledCatch"   -> SettledCatch(N, h.index, v)
    [] h.h = "settledFinally" -> SettledFinally(N)

\* one microtask: a reaction job (the handler for the outcome is called and the
\* derived promise fulfils with its return value, undefined; without a handler
\* the outcome passes through; finally() passes the outcome through after its
\* callback), or a settlement user code queued
RunJob(N, job) ==
  IF job.kind = "settle" THEN NSettle(N, job.input, job.st, job.val)
  ELSE LET h == IF job.st = FULFILLED THEN job.r.onF ELSE job.r.onR
       IN  IF h.h = "none" THEN NSettle(N, job.r.derived, job.st, job.val)
           ELSE IF h.h = "settledFinally"
             THEN NSettle(CallHandler(N, h, job.val), job.r.derived, job.st, job.val)
             ELSE NSettle(CallHandler(N, h, job.val), job.r.derived, FULFILLED, Undefined)

RECURSIVE RaceEach(_, _)
RECURSIVE AnyEach(_, _)
RECURSIVE AllEach(_, _)
RECURSIVE AllSettledEach(_, _)

\* myRace: promises.forEach((promise) => promise.then(res).catch(rej))
RaceEach(N, i) ==
  IF i > N.n THEN N
  ELSE LET N1 == NThen(N, i, Handler("res", i), NoHandler, Derived(i, 1))
           N2 == NThen(N1, Derived(i, 1), NoHandler, Handler("rej", i), Derived(i, 2))
       IN  RaceEach(N2, i + 1)

\* myAny: promise.then(res).catch((err) => ...)
AnyEach(N, i) ==
  IF i > N.n THEN N
  ELSE LET N1 == NThen(N, i, Handler("res", i), NoHandler, Derived(i, 1))
           N2 == NThen(N1, Derived(i, 1), NoHandler, Handler("anyCatch", i), Derived(i, 2))
       IN  AnyEach(N2, i + 1)

\* myAll: promise.then((val) => ..., rej)
AllEach(N, i) ==
  IF i > N.n THEN N
  ELSE AllEach(NThen(N, i, Handler("allThen", i), Handler("rej", i), Derived(i, 1)), i + 1)

\* myAllSettled: promise.then(...).catch(...).finally(...)
AllSettledEach(N, i) ==
  IF i > N.n THEN N
  ELSE LET N1 == NThen(N, i, Handler("settledThen", i), NoHandler, Derived(i, 1))
           N2 == NThen(N1, Derived(i, 1), NoHandler, Handler("settledCatch", i), Derived(i, 2))
           N3 == NThen(N2, Derived(i, 2), Handler("settledFinally", i),
                       Handler("settledFinally", i), Derived(i, 3))
       IN  AllSettledEach(N3, i + 1)

StoreNative(N) ==
  /\ np' = N.np
  /\ reactions' = N.react
  /\ jobs' = N.jobs
  /\ result' = N.result
  /\ resolvedValues' = N.rv
  /\ resolvedCount' = N.rc
  /\ settleOrder' = N.order

CombIdle ==
  /\ np = [id \in NIds |-> [st |-> PENDING, val |-> Undefined]]
  /\ reactions = [id \in NIds |-> <<>>]
  /\ jobs = <<>>
  /\ result = [st |-> PENDING, val |-> Undefined]
  /\ resolvedValues = NewArray(0)
  /\ resolvedCount = 0
  /\ called = "none"
  /\ task = TRUE
  /\ deferred = {}
  /\ settleOrder = <<>>
  /\ settledAtCall = 0

InitCombinators ==
  /\ nInputs \in 1 .. MaxInputs
  /\ CombIdle

Outcomes == {FULFILLED, REJECTED}
\* The combinators never look into a value or a reason, so input i always
\* carries the value i: a result then names the input it came from.
InputValue(i) == Prim(i)

\* user code settles input i
SettleInput(i, st) ==
  /\ task /\ i \in 1 .. nInputs /\ np[i].st = PENDING
  /\ StoreNative(NSettle(Native, i, st, InputValue(i)))
  /\ UNCHANGED <<nInputs, called, task, deferred, settledAtCall>>
  /\ UNCHANGED RestOfCombinators

\* user code queues a microtask that will settle input i (an input that is
\* itself the end of a promise chain)
DeferSettle(i, st) ==
  /\ task /\ i \in 1 .. nInputs /\ np[i].st = PENDING /\ i \notin deferred
  /\ jobs' = Append(jobs, SettleJob(i, st, InputValue(i)))
  /\ deferred' = deferred \cup {i}
  /\ UNCHANGED <<nInputs, np, reactions, result, resolvedValues, resolvedCount,
                 called, task, settleOrder, settledAtCall>>
  /\ UNCHANGED RestOfCombinators

\* the call returns: the reactions are registered
Called(name, N) ==
  /\ called' = name
  /\ settledAtCall' = Len(settleOrder)
  /\ StoreNative(N)
  /\ UNCHANGED <<nInputs, task, deferred>>
  /\ UNCHANGED RestOfCombinators

\* Promise.myRace(promises)
CallMyRace ==
  /\ task /\ called = "none"
  /\ Called("myRace", RaceEach(Native, 1))

\* Promise.myAny(promises)
CallMyAny ==
  /\ task /\ called = "none"
  /\ Called("myAny", AnyEach(Native, 1))

\* Promise.myAll(promises): let resolvedValues = new Array(promises.length)
CallMyAll ==
  /\ task /\ called = "none"
  /\ Called("myAll", AllEach([Native EXCEPT !.rv = NewArray(nInputs)], 1))

\* Promise.myAllSettled(promises): const resolvedValues = []
CallMyAllSettled ==
  /\ task /\ called = "none"
  /\ Called("myAllSettled", AllSettledEach([Native EXCEPT !.rv = NewArray(0)], 1))

\* the running macrotask ends
EndMacrotask ==
  /\ task
  /\ task' = FALSE
  /\ UNCHANGED <<nInputs, np, reactions, jobs, result, resolvedValues,
                 resolvedCount, called, deferred, settleOrder, settledAtCall>>
  /\ UNCHANGED RestOfCombinators

\* the event loop runs the oldest microtask
RunNativeJob ==
  /\ ~task /\ jobs # <<>>
  /\ StoreNative(RunJob([Native EXCEPT !.jobs = Tail(@)], Head(jobs)))
  /\ UNCHANGED <<nInputs, called, task, deferred, settledAtCall>>
  /\ UNCHANGED RestOfCombinators

\* a later macrotask (a timer callback) starts: only with no microtask left
NextMacrotask ==
  /\ ~task /\ jobs = <<>>
  /\ called = "none" \/ \E i \in 1 .. nInputs : np[i].st = PENDING
  /\ task' = TRUE
  /\ UNCHANGED <<nInputs, np, reactions, jobs, result, resolvedValues,
                 resolvedCount, called, deferred, settleOrder, settledAtCall>>
  /\ UNCHANGED RestOfCombinators

NextCombinators ==
  \/ \E i \in 1 .. MaxInputs, st \in Outcomes : SettleInput(i, st)
  \/ \E i \in 1 .. MaxInputs, st \in Outcomes : DeferSettle(i, st)
  \/ CallMyRace
  \/ CallMyAny
  \/ CallMyAll
  \/ CallMyAllSettled
  \/ EndMacrotask
  \/ RunNativeJob
  \/ NextMacrotask

\* ======================================================================
\* Part III  memoize(callback, resolver)
\* ======================================================================
MaxArgs == 1          \* longest argument list of a call
MaxInvocations == 3   \* invocations of the wrapped function in one run

JSNull == [k |-> "null"]
JSBool(b) == [k |-> "boolean", b |-> b]
\* argument values: a number, and the two values JSON.stringify writes as null
ArgVals == {Prim(1), Undefined, JSNull}
ArgLists == UNION {[1 .. n -> ArgVals] : n \in 0 .. MaxArgs}
Resolvers == {"none", "first"}

\* JSON.stringify of one array element: undefined and null both give null
JsonToken(v) ==
  IF v.k = "prim" THEN [t |-> "number", n |-> v.n] ELSE [t |-> "null", n |-> 0]
\* JSON.stringify(args), as the string's sequence of element tokens
JsonStringify(args) ==
  [k |-> "string", json |-> [i \in 1 .. Len(args) |-> JsonToken(args[i])]]

\* getCacheKey; the resolver modelled is (first) => first
GetCacheKey(args) ==
  IF resolver # "none"
    THEN (IF Len(args) = 0 THEN Undefined ELSE args[1])
    ELSE JsonStringify(args)

CacheHas(c, key) == \E e \in c : e.key = key
CacheGet(c, key) == (CHOOSE e \in c : e.key = key).val
CacheSet(c, key, v) == {e \in c : e.key # key} \cup {[key |-> key, val |-> v]}
CacheDelete(c, key) == {e \in c : e.key # key}

\* a memoisedFunction that forgets cache.set
MemoisedFunctionNoSet(args, r) ==
  LET cacheKey == GetCacheKey(args)
  IN  IF CacheHas(cache, cacheKey)
        THEN [cache |-> cache, callCount |-> callCount, ret |-> CacheGet(cache, cacheKey)]
        ELSE [cache |-> cache, callCount |-> callCount + 1, ret |-> r]

\* memoisedFunction(...args), the wrapped function returning r when invoked
MemoisedFunction(args, r) ==
  LET cacheKey == GetCacheKey(args)
  IN  IF CacheHas(cache, cacheKey)
        THEN [cache |-> cache, callCount |-> callCount, ret |-> CacheGet(cache, cacheKey)]
        ELSE [cache |-> CacheSet(cache, cacheKey, r), callCount |-> callCount + 1,
              ret |-> r]

\* a delete that empties the cache
MemoDeleteAll(args) ==
  [cache |-> {}, ret |-> JSBool(CacheHas(cache, GetCacheKey(args)))]

\* memoisedFunction.delete(...otherArgs): returns cache.delete(cacheKey)
MemoDelete(args) ==
  LET cacheKey == GetCacheKey(args)
  IN  [cache |-> CacheDelete(cache, cacheKey), ret |-> JSBool(CacheHas(cache, cacheKey))]

\* memoisedFunction.has(...otherArgs)
MemoHas(args) == JSBool(CacheHas(cache, GetCacheKey(args)))

\* what the claims' words say of a key before an operation
WasLive(key) == key \in live
WasStored(key) ==
  IF \E e \in storedAtMiss : e.key = key
    THEN (CHOOSE e \in storedAtMiss : e.key = key).val ELSE Undefined

MemoIdle ==
  /\ cache = {}
  /\ callCount = 0
  /\ last = [op |-> "none", key |-> Undefined, ret |-> Undefined,
             invoked |-> FALSE, wasLive |-> FALSE, wasStored |-> Undefined]
  /\ live = {}
  /\ storedAtMiss = {}

InitMemoize ==
  /\ resolver \in Resolvers
  /\ MemoIdle

\* memoized(...args)
Call(args, r) ==
  /\ LET key == GetCacheKey(args)
         out == MemoisedFunction(args, Prim(r))
     IN  /\ out.callCount <= MaxInvocations
         /\ cache' = out.cache
         /\ callCount' = out.callCount
         /\ last' = [op |-> "call", key |-> key, ret |-> out.ret,
                     invoked |-> out.callCount # callCount,
                     wasLive |-> WasLive(key), wasStored |-> WasStored(key)]
         /\ live' = live \cup {key}
         /\ storedAtMiss' =
              IF WasLive(key) THEN storedAtMiss
              ELSE {e \in storedAtMiss : e.key # key} \cup {[key |-> key, val |-> Prim(r)]}
  /\ UNCHANGED resolver
  /\ UNCHANGED RestOfMemoize

\* memoized.clear()
Clear ==
  /\ cache' = {}
  /\ last' = [op |-> "clear", key |-> Undefined, ret |-> Undefined,
              invoked |-> FALSE, wasLive |-> FALSE, wasStored |-> Undefined]
  /\ live' = {}
  /\ storedAtMiss' = {}
  /\ UNCHANGED <<resolver, callCount>>
  /\ UNCHANGED RestOfMemoize

\* memoized.delete(...args)
Delete(args) ==
  /\ LET key == GetCacheKey(args)
         out == MemoDelete(args)
     IN  /\ cache' = out.cache
         /\ last' = [op |-> "delete", key |-> key, ret |-> out.ret,
                     invoked |-> FALSE, wasLive |-> WasLive(key),
                     wasStored |-> WasStored(key)]
         /\ live' = live \ {key}
         /\ storedAtMiss' = {e \in storedAtMiss : e.key # key}
  /\ UNCHANGED <<resolver, callCount>>
  /\ UNCHANGED RestOfMemoize

\* memoized.has(...args)
Has(args) ==
  /\ LET key == GetCacheKey(args)
     IN  last' = [op |-> "has", key |-> key, ret |-> MemoHas(args),
                  invoked |-> FALSE, wasLive |-> WasLive(key),
                  wasStored |-> WasStored(key)]
  /\ UNCHANGED <<resolver, cache, callCount, live, storedAtMiss>>
  /\ UNCHANGED RestOfMemoize

NextMemoize ==
  \/ \E args \in ArgLists, r \in Values : Call(args, r)
  \/ Clear
  \/ \E args \in ArgLists : Delete(args)
  \/ \E args \in ArgLists : Has(args)

\* ======================================================================
\* Part IV: debounce and throttle on a host clock
\* ======================================================================

MaxTime == 4        \* milliseconds the clock runs past its start
MaxDelay == 2       \* the largest delay argument
MaxScheduled == 3   \* setTimeout calls made in one run

\* Date.now() when a run starts: further from the epoch than any delay
StartTime == MaxDelay

\* a call's arguments and its this
Selves == {"A", "B"}
Payloads == [args : Values, self : Selves]
NoPayload == [args |-> 0, self |-> "none"]

\* id == null
LooseNull(id) == id \in {Undefined, JSNull}

\* setTimeout(callback, ms) returning id: callback closes over p
SetTimeoutAt(T, id, ms, p) ==
  T \cup {[id |-> id, due |-> now + ms, args |-> p.args, self |-> p.self]}

\* clearTimeout(id): nothing happens for undefined, null and timers that ran
ClearTimeout(T, id) == {t \in T : Prim(t.id) # id}

\* the timers the host may run now
Due(T) == {t \in T : t.due <= now}

HostStart ==
  /\ now = StartTime
  /\ pending = {}
  /\ nextId = 1

HostIdle ==
  /\ HostStart
  /\ onTime = TRUE
  /\ delay = 1

InitHost ==
  /\ HostStart
  /\ onTime \in BOOLEAN
  /\ delay \in 1 .. MaxDelay

\* a millisecond passes; an on-time host runs the due timers first
Tick ==
  /\ now < StartTime + MaxTime
  /\ onTime => Due(pending) = {}
  /\ now' = now + 1
  /\ UNCHANGED <<onTime, pending, nextId, delay>>
  /\ UNCHANGED <<pvars, cvars, mvars, dvars, tvars, gvars, wvars, uvars>>

\* ---------------------------------------------------------------- debounce

\* debounce.js: the returned function, called with p
DebouncedNoClear(p) ==
  [ran       |-> IF immediate /\ LooseNull(timeoutId) THEN p ELSE NoPayload,
   pending   |-> SetTimeoutAt(pending, nextId, delay, p),
   timeoutId |-> Prim(nextId)]

Debounced(p) ==
  LET cleared == ClearTimeout(pending, timeoutId)
  IN  [ran       |-> IF immediate /\ LooseNull(timeoutId) THEN p ELSE NoPayload,
       pending   |-> SetTimeoutAt(cleared, nextId, delay, p),
       timeoutId |-> Prim(nextId)]

\* debounce.js: the timer callback of the call that set timer t
OnTimeoutAlways(t) ==
  [ran       |-> [args |-> t.args, self |-> t.self],
   timeoutId |-> JSNull]

OnTimeout(t) ==
  [ran       |-> IF ~immediate THEN [args |-> t.args, self |-> t.self]
                 ELSE NoPayload,
   timeoutId |-> JSNull]

Count(ran) == IF ran = NoPayload THEN 0 ELSE 1

DebounceIdle ==
  /\ immediate = FALSE
  /\ timeoutId = Undefined
  /\ burst = [calls |-> 0, invoked |-> 0, at |-> 0, p |-> NoPayload]
  /\ closed = {}
  /\ dLast = [op |-> "none", p |-> NoPayload, ran |-> NoPayload, at |-> 0,
              cooling |-> FALSE, n |-> 0, quiet |-> 0]

InitDebounce ==
  /\ immediate \in BOOLEAN
  /\ timeoutId = Undefined
  /\ burst = [calls |-> 0, invoked |-> 0, at |-> 0, p |-> NoPayload]
  /\ closed = {}
  /\ dLast = [op |-> "none", p |-> NoPayload, ran |-> NoPayload, at |-> 0,
              cooling |-> FALSE, n |-> 0, quiet |-> 0]

\* debounced.apply(p.self, p.args)
DebounceCall(p) ==
  /\ nextId <= MaxScheduled
  /\ onTime => Due(pending) = {}
  /\ LET out   == Debounced(p)
         fresh == burst.calls = 0 \/ now - burst.at >= delay
     IN  /\ pending' = out.pending
         /\ timeoutId' = out.timeoutId
         /\ nextId' = nextId + 1
         /\ burst' = [calls   |-> IF fresh THEN 1 ELSE burst.calls + 1,
                      invoked |-> (IF fresh THEN 0 ELSE burst.invoked)
                                    + Count(out.ran),
                      at      |-> now,
                      p       |-> p]
         /\ closed' = IF fresh /\ burst.calls > 0
                        THEN closed \cup {burst.invoked} ELSE closed
         /\ dLast' = [op |-> "call", p |-> p, ran |-> out.ran, at |-> now,
                      cooling |-> pending # {},
                      n |-> dLast.n + Count(out.ran),
                      quiet |-> dLast.quiet + 1 - Count(out.ran)]
  /\ UNCHANGED <<now, onTime, delay, immediate>>
  /\ UNCHANGED RestOfDebounce

\* the host runs the timer callback debounce scheduled
DebounceTimer ==
  /\ \E t \in Due(pending) :
       LET out == OnTimeout(t)
       IN  /\ pending' = pending \ {t}
           /\ timeoutId' = out.timeoutId
           /\ burst' = [burst EXCEPT !.invoked = @ + Count(out.ran)]
           /\ dLast' = [op |-> "timer", p |-> NoPayload, ran |-> out.ran,
                        at |-> now, cooling |-> TRUE,
                        n |-> dLast.n + Count(out.ran), quiet |-> dLast.quiet]
  /\ UNCHANGED <<now, onTime, nextId, delay, immediate, closed>>
  /\ UNCHANGED RestOfDebounce

NextDebounce ==
  \/ \E p \in Payloads : DebounceCall(p)
  \/ DebounceTimer
  \/ Tick

\* ---------------------------------------------------------------- throttle

NoneHeld == [n |-> 0, p |-> NoPayload]

\* throttle.js: throttled, called with p; the immediate branch leaves a
\* timer that is still pending alone
ThrottledFromNow(p) ==
  LET currentTime       == now
      timeSinceLastCall == currentTime - lastCalledTime
      delayRemaining    == delay - timeSinceLastCall
  IN  IF delayRemaining <= 0
        THEN [ran |-> p, lastCalledTime |-> currentTime,
              pending |-> pending, timerID |-> timerID, set |-> FALSE]
        ELSE [ran |-> NoPayload, lastCalledTime |-> lastCalledTime,
              pending |-> SetTimeoutAt(ClearTimeout(pending, timerID),
                                       nextId, delay, p),
              timerID |-> Prim(nextId), set |-> TRUE]

Throttled(p) ==
  LET currentTime       == now
      timeSinceLastCall == currentTime - lastCalledTime
      delayRemaining    == delay - timeSinceLastCall
  IN  IF delayRemaining <= 0
        THEN [ran |-> p, lastCalledTime |-> currentTime,
              pending |-> pending, timerID |-> timerID, set |-> FALSE]
        ELSE [ran |-> NoPayload, lastCalledTime |-> lastCalledTime,
              pending |-> SetTimeoutAt(ClearTimeout(pending, timerID),
                                       nextId, delayRemaining, p),
              timerID |-> Prim(nextId), set |-> TRUE]

\* throttle.js: the timer callback of the call that set timer t
Trailing(t) ==
  [ran |-> [args |-> t.args, self |-> t.self], lastCalledTime |-> now]

\* throttled.cancel()
Cancel(T) == ClearTimeout(T, timerID)

Gap == IF invokedAt < 0 THEN -1 ELSE now - invokedAt

ThrottleIdle ==
  /\ timerID = Undefined
  /\ lastCalledTime = 0
  /\ invokedAt = -1
  /\ held = NoneHeld
  /\ tLast = [kind |-> "none", ran |-> NoPayload, at |-> 0, gap |-> -1,
              held |-> NoneHeld]

\* throttled.call(p.self, ...p.args)
ThrottleCall(p) ==
  /\ onTime => Due(pending) = {}
  /\ LET out   == Throttled(p)
         early == invokedAt >= 0 /\ now - invokedAt < delay
     IN  /\ out.set => nextId <= MaxScheduled
         /\ pending' = out.pending
         /\ timerID' = out.timerID
         /\ nextId' = IF out.set THEN nextId + 1 ELSE nextId
         /\ lastCalledTime' = out.lastCalledTime
         /\ invokedAt' = IF out.ran # NoPayload THEN now ELSE invokedAt
         /\ held' = IF out.ran # NoPayload THEN NoneHeld
                    ELSE IF early THEN [n |-> held.n + 1, p |-> p]
                    ELSE held
         /\ tLast' = IF out.ran # NoPayload
                       THEN [kind |-> "leading", ran |-> out.ran, at |-> now,
                             gap |-> Gap, held |-> held]
                       ELSE tLast
  /\ UNCHANGED <<now, onTime, delay>>
  /\ UNCHANGED RestOfThrottle

\* the host runs the timer callback throttle scheduled
ThrottleTimer ==
  /\ \E t \in Due(pending) :
       LET out == Trailing(t)
       IN  /\ pending' = pending \ {t}
           /\ lastCalledTime' = out.lastCalledTime
           /\ invokedAt' = now
           /\ held' = NoneHeld
           /\ tLast' = [kind |-> "trailing", ran |-> out.ran, at |-> now,
                        gap |-> Gap, held |-> held]
  /\ UNCHANGED <<now, onTime, nextId, delay, timerID>>
  /\ UNCHANGED RestOfThrottle

\* throttled.cancel()
ThrottleCancel ==
  /\ onTime => Due(pending) = {}
  /\ pending' = Cancel(pending)
  /\ held' = NoneHeld
  /\ UNCHANGED <<now, onTime, nextId, delay, timerID, lastCalledTime,
                 invokedAt, tLast>>
  /\ UNCHANGED RestOfThrottle

NextThrottle ==
  \/ \E p \in Payloads : ThrottleCall(p)
  \/ ThrottleTimer
  \/ ThrottleCancel
  \/ Tick

\* ======================================================================
\* Part V: the Connect Four reducer
\* ======================================================================

NUM_COL == 7
NUM_ROW == 6
NUM_TO_WIN == 4

MaxPlies == 3       \* moves accepted in one run

Cols == 0 .. NUM_COL - 1
Rows == 0 .. NUM_ROW - 1

\* column[r]: undefined (here -1) outside the array
At(b, c, r) == IF r \in Rows THEN b[c][r] ELSE -1

GenEmptyState ==
  [board         |-> [c \in Cols |-> [r \in Rows |-> Null]],
   currentPlayer |-> 1,
   winner        |-> Null,
   isGameOver    |-> FALSE]

\* relevantCol[0] != null
IsColFullNever(relevantCol) == FALSE

IsColFull(relevantCol) == relevantCol[0] # Null

\* colClone.indexOf(null)
IndexOf(col, v) ==
  IF \E r \in Rows : col[r] = v
    THEN CHOOSE r \in Rows : col[r] = v /\ \A q \in Rows : col[q] = v => r <= q
    ELSE -1

\* colClone.lastIndexOf(null)
LastIndexOf(col, v) ==
  IF \E r \in Rows : col[r] = v
    THEN CHOOSE r \in Rows : col[r] = v /\ \A q \in Rows : col[q] = v => q <= r
    ELSE -1

\* the first while loop of didWin: the cells from the start onwards
RECURSIVE Ahead(_, _, _, _, _, _)
Ahead(b, currRow, currColumn, rowIncrement, colIncrememt, p) ==
  IF currColumn < NUM_COL /\ currRow < NUM_ROW /\ At(b, currColumn, currRow) = p
    THEN 1 + Ahead(b, currRow + rowIncrement, currColumn + colIncrememt,
                   rowIncrement, colIncrememt, p)
    ELSE 0

\* the second while loop of didWin: the cells before the start
RECURSIVE Behind(_, _, _, _, _, _)
Behind(b, currRow, currColumn, rowIncrement, colIncrememt, p) ==
  IF currColumn >= 0 /\ currRow >= 0 /\ At(b, currColumn, currRow) = p
    THEN 1 + Behind(b, currRow - rowIncrement, currColumn - colIncrememt,
                    rowIncrement, colIncrememt, p)
    ELSE 0

DidWinAhead(b, startingRow, startingColumn, rowIncrement, colIncrememt, p) ==
  Ahead(b, startingRow, startingColumn, rowIncrement, colIncrememt, p)
    >= NUM_TO_WIN

DidWin(b, startingRow, startingColumn, rowIncrement, colIncrememt, p) ==
  LET numInRow ==
        Ahead(b, startingRow, startingColumn, rowIncrement, colIncrememt, p)
        + Behind(b, startingRow - rowIncrement, startingColumn - colIncrememt,
                 rowIncrement, colIncrememt, p)
  IN  numInRow >= NUM_TO_WIN

\* boardClone.every((column) => column.every((val) => val != null))
IsBoardFullNever(b) == FALSE

IsBoardFull(b) == \A c \in Cols : \A r \in Rows : b[c][r] # Null

\* currentPlayer === 1 ? 2 : 1
NextPlayerAlwaysOne(p) == 1

NextPlayer(p) == IF p = 1 THEN 2 ELSE 1

Reducer(st, action) ==
  IF action.type = "restart" THEN GenEmptyState
  ELSE
    LET relevantCol == st.board[action.colIndex]
        isColFull   == IsColFull(relevantCol)
    IN  IF st.isGameOver \/ isColFull THEN st
        ELSE
          LET cp         == st.currentPlayer
              rowIndex   == LastIndexOf(relevantCol, Null)
              colClone   == IF rowIndex \in Rows
                              THEN [relevantCol EXCEPT ![rowIndex] = cp]
                              ELSE relevantCol
              boardClone == [st.board EXCEPT ![action.colIndex] = colClone]
              didWinVertical ==
                DidWin(boardClone, rowIndex, action.colIndex, 1, 0, cp)
              didWinHorizontal ==
                DidWin(boardClone, rowIndex, action.colIndex, 0, 1, cp)
              didWinDiagonal ==
                \/ DidWin(boardClone, rowIndex, action.colIndex, 1, 1, cp)
                \/ DidWin(boardClone, rowIndex, action.colIndex, -1, 1, cp)
              won == IF didWinVertical \/ didWinHorizontal \/ didWinDiagonal
                       THEN cp ELSE Null
              isBoardFull == IsBoardFull(boardClone)
          IN  [board         |-> boardClone,
               currentPlayer |-> NextPlayer(cp),
               winner        |-> won,
               isGameOver    |-> won # Null \/ isBoardFull]

\* the state useReducer holds
GameState ==
  [board |-> board, currentPlayer |-> currentPlayer, winner |-> winner,
   isGameOver |-> isGameOver]

\* a game played to a full board with no four in a row, as column indices
DrawGame ==
  <<5, 3, 2, 3, 1, 5, 3, 1, 0, 1, 4, 1, 2, 5, 0, 5, 6, 6, 2, 0, 6,
    0, 4, 2, 3, 0, 3, 4, 2, 3, 2, 6, 1, 1, 5, 4, 6, 6, 0, 4, 4, 5>>

\* the state after dispatching the first n moves of a game from state st
RECURSIVE Replay(_, _, _)
Replay(st, moves, n) ==
  IF n = 0 \/ st.isGameOver THEN st
  ELSE Replay(Reducer(st, [type |-> "move", colIndex |-> Head(moves)]),
              Tail(moves), n - 1)

Holds(st) ==
  /\ board = st.board
  /\ currentPlayer = st.currentPlayer
  /\ winner = st.winner
  /\ isGameOver = st.isGameOver

NoAction == [type |-> "none", blocked |-> FALSE, same |-> TRUE, mover |-> 1]

GameIdle ==
  /\ Holds(GenEmptyState)
  /\ plies = 0
  /\ gLast = NoAction

\* a run starts at mount, or at any position of the drawn game
InitConnectFour ==
  /\ \E n \in 0 .. Len(DrawGame) : Holds(Replay(GenEmptyState, DrawGame, n))
  /\ plies = 0
  /\ gLast = NoAction

\* dispatchBoard({ type: "move", colIndex })
Move(colIndex) ==
  /\ \E out \in {Reducer(GameState, [type |-> "move", colIndex |-> colIndex])} :
         /\ out # GameState => plies < MaxPlies
         /\ board' = out.board
         /\ currentPlayer' = out.currentPlayer
         /\ winner' = out.winner
         /\ isGameOver' = out.isGameOver
         /\ plies' = IF out # GameState THEN plies + 1 ELSE plies
         /\ gLast' = [type    |-> "move",
                      blocked |-> isGameOver \/ board[colIndex][0] # Null,
                      same    |-> out = GameState,
                      mover   |-> currentPlayer]
  /\ UNCHANGED RestOfConnectFour

\* dispatchBoard({ type: "restart" })
Restart ==
  /\ \E out \in {Reducer(GameState, [type |-> "restart"])} :
         /\ board' = out.board
         /\ currentPlayer' = out.currentPlayer
         /\ winner' = out.winner
         /\ isGameOver' = out.isGameOver
         /\ plies' = 0
         /\ gLast' = [type |-> "restart", blocked |-> FALSE,
                      same |-> out = GameState, mover |-> currentPlayer]
  /\ UNCHANGED RestOfConnectFour

NextConnectFour ==
  \/ \E colIndex \in Cols : Move(colIndex)
  \/ Restart

\* ======================================================================
\* Part VI: the Wordle key handler
\* ======================================================================

NUM_GUESSES == 6
WORD_LENGTH == 5

\* a string value, as the sequence of its characters
Str(s) == [k |-> "string", s |-> s]
EmptyString == Str(<<>>)

\* String.prototype.toLowerCase, for the characters the keys below carry
LowerChar(ch) ==
  CASE ch = "A" -> "a"
    [] ch = "B" -> "b"
    [] ch = "E" -> "e"
    [] ch = "S" -> "s"
    [] OTHER    -> ch
ToLowerCase(s) == [i \in 1 .. Len(s) |-> LowerChar(s[i])]

\* "x".charCodeAt(0), for lower-cased characters
CharCode(ch) ==
  CASE ch = "1" -> 49
    [] ch = "a" -> 97
    [] ch = "b" -> 98
    [] ch = "e" -> 101
    [] ch = "s" -> 115
    [] ch = "z" -> 122
    [] ch = "{" -> 123

\* event.key of the keys pressed
Backspace == <<"B", "a", "c", "k", "s", "p", "a", "c", "e">>
Enter     == <<"E", "n", "t", "e", "r">>
Shift     == <<"S", "h", "i", "f", "t">>
Keys == {<<"a">>, <<"B">>, <<"1">>, <<"{">>, Backspace, Enter, Shift}

\* the fetched word list, and the words the player tries
WordList == {<<"A", "A", "A", "A", "A">>, <<"b", "a", "a", "a", "a">>,
             <<"b", "b", "b", "b", "b">>}
Attempts == {<<"a", "a", "a", "a", "a">>, <<"b", "a", "a", "a", "a">>}

Slots == 1 .. NUM_GUESSES

\* guesses.includes(solution)
Includes(gs, x) == \E i \in Slots : gs[i] = x

\* guesses.findIndex((guess) => guess === null); slot i is guesses[i - 1]
FindIndex(gs) ==
  IF \E i \in Slots : gs[i] = JSNull
    THEN (CHOOSE i \in Slots : gs[i] = JSNull /\ \A j \in Slots : gs[j] = JSNull => i <= j) - 1
    ELSE -1

\* prevGuess.slice(0, -1)
SliceLast(s) == IF Len(s) = 0 THEN s ELSE SubSeq(s, 1, Len(s) - 1)

\* the guard of onPressKey
GameEndedWhenFull(gs, sol) == gs[(NUM_GUESSES - 1) + 1] # JSNull

GameEnded(gs, sol) ==
  gs[(NUM_GUESSES - 1) + 1] # JSNull \/ Includes(gs, sol)

\* onPressKey(event) with event.key = key, as the state the setters leave
OnPressKey(key) ==
  IF GameEnded(guesses, solution)
    THEN [currentGuess |-> currentGuess, guesses |-> guesses]
  ELSE
    LET charCode  == CharCode(ToLowerCase(key)[1])
        isLetter  == /\ Len(key) = 1
                     /\ charCode >= CharCode("a")
                     /\ charCode <= CharCode("z")
        prevGuess == currentGuess.s
    IN  IF key = Backspace
          THEN [currentGuess |-> Str(SliceLast(prevGuess)), guesses |-> guesses]
        ELSE IF key = Enter /\ Len(prevGuess) = WORD_LENGTH
          THEN LET currentGuessIndex == FindIndex(guesses)
               IN  [currentGuess |-> EmptyString,
                    guesses |-> [guesses EXCEPT ![currentGuessIndex + 1] =
                                   Str(prevGuess)]]
        ELSE IF Len(prevGuess) < WORD_LENGTH /\ isLetter
          THEN [currentGuess |-> Str(prevGuess \o ToLowerCase(key)),
                guesses |-> guesses]
        ELSE [currentGuess |-> currentGuess, guesses |-> guesses]

\* the keys a player who tries the words of Attempts may press now
IsPrefix(s, w) == Len(s) <= Len(w) /\ SubSeq(w, 1, Len(s)) = s
KeysNow ==
  {key \in Keys :
     LET typed == currentGuess.s \o ToLowerCase(key)
     IN  (Len(key) = 1 /\ key[1] \in {"a", "B"}
            /\ Len(currentGuess.s) < WORD_LENGTH)
           => \E w \in Attempts : IsPrefix(typed, w)}

\* a committed guess equals the solution, or all slots are filled
Over ==
  \/ \E i \in Slots : guesses[i] # JSNull /\ guesses[i] = solution
  \/ \A i \in Slots : guesses[i] # JSNull

NoKey == [op |-> "none", over |-> FALSE, unavailable |-> TRUE, changed |-> FALSE]

WordleIdle ==
  /\ solution = EmptyString
  /\ guesses = [i \in Slots |-> JSNull]
  /\ currentGuess = EmptyString
  /\ fetched = "pending"
  /\ wLast = NoKey

\* a keydown event reaches the listener of the latest render
KeyDown(key) ==
  /\ key \in KeysNow
  /\ LET out == OnPressKey(key)
     IN  /\ currentGuess' = out.currentGuess
         /\ guesses' = out.guesses
         /\ wLast' = [op |-> "key", over |-> Over,
                      unavailable |-> fetched # "done",
                      changed |-> \/ out.currentGuess # currentGuess
                                  \/ out.guesses # guesses]
  /\ UNCHANGED <<solution, fetched>>
  /\ UNCHANGED RestOfWordle

\* the word list arrives: setSolution(words[...].toLowerCase())
FetchDone(word) ==
  /\ fetched = "pending"
  /\ solution' = Str(ToLowerCase(word))
  /\ fetched' = "done"
  /\ wLast' = [wLast EXCEPT !.op = "fetch"]
  /\ UNCHANGED <<guesses, currentGuess>>
  /\ UNCHANGED RestOfWordle

\* fetch or response.json() rejects: no setSolution
FetchFail ==
  /\ fetched = "pending"
  /\ fetched' = "failed"
  /\ wLast' = [wLast EXCEPT !.op = "fetch"]
  /\ UNCHANGED <<solution, guesses, currentGuess>>
  /\ UNCHANGED RestOfWordle

NextWordle ==
  \/ \E key \in Keys : KeyDown(key)
  \/ \E word \in WordList : FetchDone(word)
  \/ FetchFail

\* ======================================================================
\* Part VII: the Quiz component
\* ======================================================================

MaxQuestions == 3   \* questions the quiz API returns
MaxAnswers == 2     \* answers of each question

QuestionIndices == 0 .. MaxQuestions - 1
AnswerIndices == 0 .. MaxAnswers - 1

\* useState([]) for selectedAnswers: every index reads undefined
NoAnswers == [i \in QuestionIndices |-> Undefined]

\* selectedAnswers[currentQuestionIndex] === undefined
IsUnansweredAlways(sa, i) == TRUE

IsUnanswered(sa, i) == sa[i] = Undefined

\* updateSelectedAnswer(questionIndex, answerIndex)
UpdateSelectedAnswer(sa, questionIndex, answerIndex) ==
  [sa EXCEPT ![questionIndex] = Prim(answerIndex)]

\* currentQuestionIndex === 0
IsFirstQuestion == currentQuestionIndex = 0

\* currentQuestionIndex === questions.length - 1
IsLastQuestion == currentQuestionIndex = questions - 1

\* the disabled attribute of the Back button
BackDisabled == IsFirstQuestion

\* the disabled attribute of the Next button
NextDisabledOnLastOnly == IsLastQuestion

NextDisabled ==
  IsLastQuestion \/ IsUnanswered(selectedAnswers, currentQuestionIndex)

NoClick == [op |-> "none", q |-> 0, a |-> 0, had |-> Undefined,
            before |-> NoAnswers]

QuizIdle ==
  /\ questions = 0
  /\ currentQuestionIndex = 0
  /\ selectedAnswers = NoAnswers
  /\ firstPick = NoAnswers
  /\ qLast = NoClick

\* the quiz request resolves: setQuestions(data), data holding n questions
QuizLoaded(n) ==
  /\ questions = 0
  /\ questions' = n
  /\ qLast' = [qLast EXCEPT !.op = "load"]
  /\ UNCHANGED <<currentQuestionIndex, selectedAnswers, firstPick>>
  /\ UNCHANGED RestOfQuiz

\* a click on answer answerIndex of the question on display
AnswerClick(answerIndex) ==
  /\ currentQuestionIndex < questions
  /\ selectedAnswers' =
       IF IsUnanswered(selectedAnswers, currentQuestionIndex)
         THEN UpdateSelectedAnswer(selectedAnswers, currentQuestionIndex,
                                   answerIndex)
         ELSE selectedAnswers
  /\ firstPick' = IF firstPick[currentQuestionIndex] = Undefined
                    THEN [firstPick EXCEPT ![currentQuestionIndex] =
                            Prim(answerIndex)]
                    ELSE firstPick
  /\ qLast' = [op |-> "answer", q |-> currentQuestionIndex, a |-> answerIndex,
               had |-> selectedAnswers[currentQuestionIndex],
               before |-> selectedAnswers]
  /\ UNCHANGED <<questions, currentQuestionIndex>>
  /\ UNCHANGED RestOfQuiz

\* a click on Back while it is enabled
BackClick ==
  /\ ~BackDisabled
  /\ currentQuestionIndex' = currentQuestionIndex - 1
  /\ qLast' = [qLast EXCEPT !.op = "back"]
  /\ UNCHANGED <<questions, selectedAnswers, firstPick>>
  /\ UNCHANGED RestOfQuiz

\* a click on Next while it is enabled
NextClick ==
  /\ ~NextDisabled
  /\ currentQuestionIndex + 1 \in QuestionIndices
  /\ currentQuestionIndex' = currentQuestionIndex + 1
  /\ qLast' = [qLast EXCEPT !.op = "next"]
  /\ UNCHANGED <<questions, selectedAnswers, firstPick>>
  /\ UNCHANGED RestOfQuiz

NextQuiz ==
  \/ \E n \in 1 .. MaxQuestions : QuizLoaded(n)
  \/ \E answerIndex \in AnswerIndices : AnswerClick(answerIndex)
  \/ BackClick
  \/ NextClick

\* ======================================================================
\* Part VIII: the Memory component
\* ======================================================================

TILE_COLORS == <<"red", "green", "blue", "yellow">>

ClearDelay == 1000  \* the delay of the timer the effect sets, in ms
TickMs == 500       \* the step of the clock, in ms

TileIndices == 0 .. 2 * Len(TILE_COLORS) - 1

\* shuffle([...TILE_COLORS, ...TILE_COLORS]): two of the orders it can return
Arrangements ==
  {[i \in TileIndices |-> TILE_COLORS[(i % Len(TILE_COLORS)) + 1]],
   [i \in TileIndices |-> TILE_COLORS[(i \div 2) + 1]]}

\* array.includes(x)
SeqIncludes(s, x) == \E i \in 1 .. Len(s) : s[i] = x

\* the guard of handleTileClick
IgnoresClickUnlessMatched(sel, matched, tileIndex) ==
  Len(sel) >= 2 \/ SeqIncludes(sel, tileIndex)

IgnoresClick(sel, matched, tileIndex) ==
  \/ Len(sel) >= 2
  \/ SeqIncludes(sel, tileIndex)
  \/ SeqIncludes(matched, tileIndex)

\* handleTileClick(tileIndex): the selection it leaves
HandleTileClick(tileIndex) ==
  IF IgnoresClick(selectedTiles, matchedTiles, tileIndex)
    THEN selectedTiles
    ELSE Append(selectedTiles, tileIndex)

NoTimer == [for |-> <<>>, left |-> -1]

\* the cleanup an effect returned: clearTimeout(timeoutId)
CleanupKeepsTimer(t) == t

Cleanup(t) == NoTimer

\* the body of the effect, run for the selection of the latest render
Effect ==
  IF Len(selectedTiles) < 2
    THEN [matchedTiles |-> matchedTiles, selectedTiles |-> selectedTiles,
          timer |-> NoTimer, rerender |-> FALSE]
  ELSE IF tiles[selectedTiles[1]] = tiles[selectedTiles[2]]
    THEN [matchedTiles |-> matchedTiles \o selectedTiles,
          selectedTiles |-> <<>>, timer |-> NoTimer, rerender |-> TRUE]
  ELSE [matchedTiles |-> matchedTiles, selectedTiles |-> selectedTiles,
        timer |-> [for |-> selectedTiles, left |-> ClearDelay],
        rerender |-> FALSE]

\* matchedTiles.length === tiles.length
PlayerWinStatus == Len(matchedTiles) = 2 * Len(TILE_COLORS)

NoTileEvent == [op |-> "none", blocked |-> FALSE, same |-> TRUE,
                matched |-> <<>>, for |-> <<>>]

\* the component after its first render and the effect of that render
InitMemory ==
  /\ tiles \in Arrangements
  /\ selectedTiles = <<>>
  /\ matchedTiles = <<>>
  /\ effectPending = FALSE
  /\ memoryTimer = NoTimer
  /\ hasCleanup = FALSE
  /\ mounted = TRUE
  /\ yLast = NoTileEvent

\* a click on tile tileIndex; a click that sets state waits for the effect of
\* the render before it
TileClick(tileIndex) ==
  /\ mounted
  /\ \E out \in {HandleTileClick(tileIndex)} :
       /\ out # selectedTiles => ~effectPending
       /\ selectedTiles' = out
       /\ effectPending' = (effectPending \/ out # selectedTiles)
       /\ yLast' = [op |-> "click",
                    blocked |-> \/ Len(selectedTiles) >= 2
                                \/ \E i \in 1 .. Len(selectedTiles) :
                                     selectedTiles[i] = tileIndex
                                \/ \E i \in 1 .. Len(matchedTiles) :
                                     matchedTiles[i] = tileIndex,
                    same |-> out = selectedTiles,
                    matched |-> matchedTiles, for |-> <<>>]
  /\ UNCHANGED <<tiles, matchedTiles, memoryTimer, hasCleanup, mounted>>
  /\ UNCHANGED RestOfMemory

\* the effect of the latest render: the cleanup of the effect before it, then
\* its body
MemoryEffect ==
  /\ mounted
  /\ effectPending
  /\ \E out \in {Effect} :
       /\ matchedTiles' = out.matchedTiles
       /\ selectedTiles' = out.selectedTiles
       /\ memoryTimer' = IF out.timer # NoTimer THEN out.timer
                         ELSE IF hasCleanup THEN Cleanup(memoryTimer)
                         ELSE memoryTimer
       /\ hasCleanup' = (out.timer # NoTimer)
       /\ effectPending' = out.rerender
       /\ yLast' = [yLast EXCEPT !.op = "effect"]
  /\ UNCHANGED <<tiles, mounted>>
  /\ UNCHANGED RestOfMemory

\* TickMs pass while a timer waits
MemoryTick ==
  /\ memoryTimer # NoTimer
  /\ memoryTimer.left > 0
  /\ memoryTimer' = [memoryTimer EXCEPT
                      !.left = IF @ > TickMs THEN @ - TickMs ELSE 0]
  /\ UNCHANGED <<tiles, selectedTiles, matchedTiles, effectPending,
                 hasCleanup, mounted, yLast>>
  /\ UNCHANGED RestOfMemory

\* the host runs the timer callback: setSelectedTiles([])
MemoryTimeout ==
  /\ memoryTimer # NoTimer
  /\ memoryTimer.left = 0
  /\ ~effectPending
  /\ memoryTimer' = NoTimer
  /\ selectedTiles' = IF mounted THEN <<>> ELSE selectedTiles
  /\ effectPending' = mounted
  /\ yLast' = [op |-> "timeout", blocked |-> FALSE,
               same |-> selectedTiles = <<>>, matched |-> matchedTiles,
               for |-> memoryTimer.for]
  /\ UNCHANGED <<tiles, matchedTiles, hasCleanup, mounted>>
  /\ UNCHANGED RestOfMemory

\* handleRestart(), from the button shown once every tile is matched
MemoryRestart ==
  /\ mounted
  /\ PlayerWinStatus
  /\ ~effectPending
  /\ matchedTiles' = <<>>
  /\ selectedTiles' = <<>>
  /\ tiles' \in Arrangements
  /\ effectPending' = TRUE
  /\ yLast' = [yLast EXCEPT !.op = "restart"]
  /\ UNCHANGED <<memoryTimer, hasCleanup, mounted>>
  /\ UNCHANGED RestOfMemory

\* the component unmounts: the cleanup of the last effect runs
MemoryUnmount ==
  /\ mounted
  /\ ~effectPending
  /\ mounted' = FALSE
  /\ memoryTimer' = IF hasCleanup THEN Cleanup(memoryTimer) ELSE memoryTimer
  /\ hasCleanup' = FALSE
  /\ yLast' = [yLast EXCEPT !.op = "unmount"]
  /\ UNCHANGED <<tiles, selectedTiles, matchedTiles, effectPending>>
  /\ UNCHANGED RestOfMemory

NextMemory ==
  \/ \E tileIndex \in TileIndices : TileClick(tileIndex)
  \/ MemoryEffect
  \/ MemoryTick
  \/ MemoryTimeout
  \/ MemoryRestart
  \/ MemoryUnmount

\* ======================================================================
\* Part IX: the Crypto Prices component
\* ======================================================================

MaxLastPage == 2    \* the largest number the last page of the API may have
MaxRequests == 2    \* page requests in flight at once

\* page numbers the component can reach before the requests run out
PageNumbers == 0 .. MaxLastPage + MaxRequests

NoRequests == [p \in PageNumbers |-> 0]

\* the requests in flight, counted
InFlight(req) ==
  LET RECURSIVE Sum(_)
      Sum(p) == IF p < 0 THEN 0 ELSE req[p] + Sum(p - 1)
  IN  Sum(MaxLastPage + MaxRequests)

\* data.hasNext of the response for page p: true unless p holds the last coin
HasNext(p) == p # lastPage

\* the disabled attribute of the Back button
CryptoBackDisabled == currentPage = 0

\* the disabled attribute of the Next button
CryptoNextDisabled == ~isNextPage

\* the effect on [currentPage]: fetch(`...?page=${currentPage}`)
FetchCoins(req, page) == [req EXCEPT ![page] = @ + 1]

\* the component after its first render and the effect of that render
InitCrypto ==
  /\ lastPage \in 0 .. MaxLastPage
  /\ currentPage = 0
  /\ coins = -1
  /\ isNextPage = FALSE
  /\ requests = FetchCoins(NoRequests, 0)
  /\ fetchFailed = FALSE

\* a response arrives: setCoins(data.coins); setIsNextPage(data.hasNext)
CryptoResponse(p) ==
  /\ requests[p] > 0
  /\ requests' = [requests EXCEPT ![p] = @ - 1]
  /\ coins' = p
  /\ isNextPage' = HasNext(p)
  /\ UNCHANGED <<lastPage, currentPage, fetchFailed>>
  /\ UNCHANGED RestOfCrypto

\* fetch or response.json() rejects: console.log(error)
CryptoFailure(p) ==
  /\ requests[p] > 0
  /\ requests' = [requests EXCEPT ![p] = @ - 1]
  /\ fetchFailed' = TRUE
  /\ UNCHANGED <<lastPage, currentPage, coins, isNextPage>>
  /\ UNCHANGED RestOfCrypto

\* a click on Back while it is enabled, and the effect of the new render
CryptoBack ==
  /\ ~CryptoBackDisabled
  /\ InFlight(requests) < MaxRequests
  /\ currentPage' = IF currentPage > 0 THEN currentPage - 1 ELSE currentPage
  /\ requests' = IF currentPage > 0
                   THEN FetchCoins(requests, currentPage - 1) ELSE requests
  /\ UNCHANGED <<lastPage, coins, isNextPage, fetchFailed>>
  /\ UNCHANGED RestOfCrypto

\* a click on Next while it is enabled, and the effect of the new render
CryptoNext ==
  /\ ~CryptoNextDisabled
  /\ InFlight(requests) < MaxRequests
  /\ currentPage + 1 \in PageNumbers
  /\ currentPage' = IF isNextPage THEN currentPage + 1 ELSE currentPage
  /\ requests' = IF isNextPage
                   THEN FetchCoins(requests, currentPage + 1) ELSE requests
  /\ UNCHANGED <<lastPage, coins, isNextPage, fetchFailed>>
  /\ UNCHANGED RestOfCrypto

NextCrypto ==
  \/ \E p \in PageNumbers : CryptoResponse(p)
  \/ \E p \in PageNumbers : CryptoFailure(p)
  \/ CryptoBack
  \/ CryptoNext

\* ======================================================================
\* Part X: the Phone Input component
\* ======================================================================

MaxPhoneLength == 14    \* the value's length at which Submit is enabled

\* characters matched by \d
DigitChars == {"0", "1", "2", "3", "4", "5", "6", "7", "8", "9"}

\* the characters a user types
TypedChars == {"1", "a"}

\* texts a user pastes over the field
Pastes ==
  {<<"1", "2", "a", "1", "2">>,
   <<"(", "1", "2", "1", ")", " ", "2", "1", "2", "-", "1", "2", "1", "2">>,
   <<"1", "-", "2", "1", "2", "-", "1", "2", "1", "-", "2", "1", "2", "1">>}

\* str.replace(/\D/g, "")
RECURSIVE ReplaceNonDigits(_)
ReplaceNonDigits(str) ==
  IF str = <<>> THEN <<>>
  ELSE IF Head(str) \in DigitChars
    THEN <<Head(str)>> \o ReplaceNonDigits(Tail(str))
    ELSE ReplaceNonDigits(Tail(str))

\* str.substring(from, to), for 0 <= from <= to
Substring(str, from, to) ==
  SubSeq(str, from + 1, IF to < Len(str) THEN to ELSE Len(str))

\* format(str)
FormatUncut(str) ==
  LET digits == ReplaceNonDigits(str)
      r1 == IF Len(digits) > 0 THEN <<"(">> \o Substring(digits, 0, 3) ELSE <<>>
      r2 == IF Len(digits) > 3
              THEN r1 \o <<")", " ">> \o Substring(digits, 3, 6) ELSE r1
      r3 == IF Len(digits) > 6
              THEN r2 \o <<"-">> \o Substring(digits, 6, Len(digits)) ELSE r2
  IN  r3

Format(str) ==
  LET digits == ReplaceNonDigits(str)
      r1 == IF Len(digits) > 0 THEN <<"(">> \o Substring(digits, 0, 3) ELSE <<>>
      r2 == IF Len(digits) > 3
              THEN r1 \o <<")", " ">> \o Substring(digits, 3, 6) ELSE r1
      r3 == IF Len(digits) > 6
              THEN r2 \o <<"-">> \o Substring(digits, 6, 10) ELSE r2
  IN  r3

\* the disabled attribute of the Submit button
SubmitDisabled == Len(inputValue.s) # MaxPhoneLength

\* one edit of the field: a character typed at a position, the character at
\* a position deleted, or a text pasted over the field
EditsAt ==
  [kind : {"type"}, at : 0 .. MaxPhoneLength, text : {<<ch>> : ch \in TypedChars}]
  \cup [kind : {"delete"}, at : 1 .. MaxPhoneLength, text : {<<>>}]
  \cup [kind : {"paste"}, at : {0}, text : Pastes]

\* event.target.value after the edit
Edited(v, edit) ==
  CASE edit.kind = "type" ->
         SubSeq(v, 1, edit.at) \o edit.text \o SubSeq(v, edit.at + 1, Len(v))
    [] edit.kind = "delete" ->
         SubSeq(v, 1, edit.at - 1) \o SubSeq(v, edit.at + 1, Len(v))
    [] edit.kind = "paste" -> edit.text

NoEdit == [op |-> "none", digits |-> <<>>]

PhoneIdle ==
  /\ inputValue = EmptyString
  /\ iLast = NoEdit

\* handleInputChange(event) with event.target.value the field's text edited
InputChange(edit) ==
  /\ edit.at <= Len(inputValue.s)
  /\ \E raw \in {Edited(inputValue.s, edit)} :
       /\ inputValue' = Str(Format(raw))
       /\ iLast' = [op |-> "change",
                    digits |-> SelectSeq(raw, LAMBDA ch : ch \in DigitChars)]
  /\ UNCHANGED RestOfPhone

\* a click on Submit while it is enabled
SubmitClick ==
  /\ ~SubmitDisabled
  /\ inputValue' = EmptyString
  /\ iLast' = [op |-> "submit", digits |-> <<>>]
  /\ UNCHANGED RestOfPhone

NextPhone ==
  \/ \E edit \in EditsAt : InputChange(edit)
  \/ SubmitClick

\* ======================================================================
\* Part XI: the EventTarget class
\* ======================================================================

Targets == {1, 2}
EventNames == {"hello", "world"}
Callbacks == {"f", "g"}

\* new Map(): get(name) is undefined for every name
NewMap == [name \in EventNames |-> Undefined]

\* a Set, as its elements in insertion order
SetOf(items) == [k |-> "set", items |-> items]

\* set.add(callback)
SetPush(items, callback) == Append(items, callback)

SetAdd(items, callback) ==
  IF \E i \in 1 .. Len(items) : items[i] = callback
    THEN items ELSE Append(items, callback)

\* set.delete(callback)
SetDelete(items, callback) == SelectSeq(items, LAMBDA x : x # callback)

\* addEventListener(name, callback) on a target whose map is map
AddEventListener(map, name, callback) ==
  LET made == IF map[name] = Undefined
                THEN [map EXCEPT ![name] = SetOf(<<>>)] ELSE map
  IN  [map    |-> [made EXCEPT ![name] =
                     SetOf(SetAdd(made[name].items, callback))],
       called |-> <<>>, threw |-> FALSE]

\* removeEventListener(name, callback)
RemoveEventListener(map, name, callback) ==
  IF map[name] = Undefined
    THEN [map |-> map, called |-> <<>>, threw |-> FALSE]
    ELSE [map    |-> [map EXCEPT ![name] =
                        SetOf(SetDelete(map[name].items, callback))],
          called |-> <<>>, threw |-> FALSE]

\* dispatchEvent(name): the callbacks called, in order
DispatchEvent(map, name) ==
  IF map[name] = Undefined
    THEN [map |-> map, called |-> <<>>, threw |-> FALSE]
    ELSE [map |-> map, called |-> map[name].items, threw |-> FALSE]

NoCall == [op |-> "none", target |-> 1, name |-> "hello", called |-> <<>>,
           threw |-> FALSE, same |-> TRUE, had |-> FALSE]

\* two targets after new EventTarget()
EventTargetIdle ==
  /\ eventListenerMap = [t \in Targets |-> NewMap]
  /\ registered = [t \in Targets |-> [name \in EventNames |-> {}]]
  /\ eLast = NoCall

\* target t: addEventListener(name, callback)
AddListener(t, name, callback) ==
  /\ \E out \in {AddEventListener(eventListenerMap[t], name, callback)} :
       /\ eventListenerMap' = [eventListenerMap EXCEPT ![t] = out.map]
       /\ eLast' = [op |-> "add", target |-> t, name |-> name,
                    called |-> out.called, threw |-> out.threw,
                    same |-> out.map = eventListenerMap[t],
                    had |-> callback \in registered[t][name]]
  /\ registered' = [registered EXCEPT ![t][name] = @ \cup {callback}]
  /\ UNCHANGED RestOfEventTarget

\* target t: removeEventListener(name, callback)
RemoveListener(t, name, callback) ==
  /\ \E out \in {RemoveEventListener(eventListenerMap[t], name, callback)} :
       /\ eventListenerMap' = [eventListenerMap EXCEPT ![t] = out.map]
       /\ eLast' = [op |-> "remove", target |-> t, name |-> name,
                    called |-> out.called, threw |-> out.threw,
                    same |-> out.map = eventListenerMap[t],
                    had |-> callback \in registered[t][name]]
  /\ registered' = [registered EXCEPT ![t][name] = @ \ {callback}]
  /\ UNCHANGED RestOfEventTarget

\* target t: dispatchEvent(name)
Dispatch(t, name) ==
  /\ \E out \in {DispatchEvent(eventListenerMap[t], name)} :
       /\ eventListenerMap' = [eventListenerMap EXCEPT ![t] = out.map]
       /\ eLast' = [op |-> "dispatch", target |-> t, name |-> name,
                    called |-> out.called, threw |-> out.threw,
                    same |-> out.map = eventListenerMap[t],
                    had |-> registered[t][name] # {}]
  /\ UNCHANGED registered
  /\ UNCHANGED RestOfEventTarget

NextEventTarget ==
  \/ \E t \in Targets, name \in EventNames, callback \in Callbacks :
       AddListener(t, name, callback)
  \/ \E t \in Targets, name \in EventNames, callback \in Callbacks :
       RemoveListener(t, name, callback)
  \/ \E t \in Targets, name \in EventNames : Dispatch(t, name)

\* ======================================================================
\* Part XII: the Tier List handlers
\* ======================================================================

Items == {"red", "green", "blue"}
Unranked == "unranked-drop-zone"
DropZones == {"A", "B", "C", Unranked}

\* node.parentNode, for an item
ParentNode(ch, item) ==
  CHOOSE z \in DropZones : \E k \in 1 .. Len(ch[z]) : ch[z][k] = item

\* zone.appendChild(item): the item leaves its parent and becomes the last
\* child of zone
AppendChild(ch, zone, item) ==
  [z \in DropZones |->
     LET others == SelectSeq(ch[z], LAMBDA x : x # item)
     IN  IF z = zone THEN Append(others, item) ELSE others]

\* onDragItem(event), event.target being the item
OnDragItem(item) == Prim(item)

\* onDoubleClickItem, this being the item
OnDoubleClickItem(ch, this) ==
  IF Unranked # ParentNode(ch, this)
    THEN AppendChild(ch, Unranked, this)
    ELSE ch

\* onDropOverDropZone, this being the drop zone; reading parentNode of
\* undefined throws
OnDropAlwaysAppends(ch, this, dragged) ==
  IF dragged = Undefined THEN [children |-> ch, threw |-> TRUE]
  ELSE [children |-> AppendChild(ch, this, dragged.n), threw |-> FALSE]

OnDropOverDropZone(ch, this, dragged) ==
  IF dragged = Undefined THEN [children |-> ch, threw |-> TRUE]
  ELSE IF this # ParentNode(ch, dragged.n)
    THEN [children |-> AppendChild(ch, this, dragged.n), threw |-> FALSE]
  ELSE [children |-> ch, threw |-> FALSE]

\* the page as given: the three items in the unranked zone
GivenPage ==
  [z \in DropZones |->
     IF z = Unranked THEN <<"red", "green", "blue">> ELSE <<>>]

NoDrag == [op |-> "none", item |-> Undefined, zone |-> Unranked,
           before |-> GivenPage, threw |-> FALSE]

TierListIdle ==
  /\ children = GivenPage
  /\ draggedItem = Undefined
  /\ lLast = NoDrag

\* a dragstart event on an item
DragStart(item) ==
  /\ draggedItem' = OnDragItem(item)
  /\ lLast' = [op |-> "dragstart", item |-> Prim(item), zone |-> Unranked,
               before |-> children, threw |-> FALSE]
  /\ UNCHANGED children
  /\ UNCHANGED RestOfTierList

\* a drop event on a drop zone
Drop(zone) ==
  /\ \E out \in {OnDropOverDropZone(children, zone, draggedItem)} :
       /\ children' = out.children
       /\ lLast' = [op |-> "drop", item |-> draggedItem, zone |-> zone,
                    before |-> children, threw |-> out.threw]
  /\ UNCHANGED draggedItem
  /\ UNCHANGED RestOfTierList

\* a dblclick event on an item
DoubleClick(item) ==
  /\ children' = OnDoubleClickItem(children, item)
  /\ lLast' = [op |-> "dblclick", item |-> Prim(item), zone |-> Unranked,
               before |-> children, threw |-> FALSE]
  /\ UNCHANGED draggedItem
  /\ UNCHANGED RestOfTierList

NextTierList ==
  \/ \E item \in Items : DragStart(item)
  \/ \E zone \in DropZones : Drop(zone)
  \/ \E item \in Items : DoubleClick(item)

\* ======================================================================
\* Part XIII: the Stopwatch handlers
\* ======================================================================

FrameMs == 700      \* milliseconds the clock advances in one step
MaxFrames == 4      \* steps of the clock in one run
PageLoadedAt == 5000    \* Date.now() when the page loads

DecimalDigits == <<"0", "1", "2", "3", "4", "5", "6", "7", "8", "9">>

\* String(number), for a non-negative integer
RECURSIVE StringOf(_)
StringOf(number) ==
  IF number < 10 THEN <<DecimalDigits[number + 1]>>
  ELSE StringOf(number \div 10) \o <<DecimalDigits[(number % 10) + 1]>>

\* stringNumber.padStart(desiredLength, "0")
PadStart(s, desiredLength) ==
  [i \in 1 .. (desiredLength - Len(s)) |-> "0"] \o s

\* formatNumber(number, desiredLength)
FormatNumber(number, desiredLength) ==
  LET stringNumber == StringOf(number)
  IN  IF Len(stringNumber) > desiredLength
        THEN SubSeq(stringNumber, 1, desiredLength)
        ELSE PadStart(stringNumber, desiredLength)

\* the text updateTimer writes when Date.now() is t
UpdateTimerText(t) ==
  LET millisecondsPassed == t - lastStartTime + millisecondsPassedBeforeLastStart
      millisecondsText == FormatNumber(millisecondsPassed % 1000, 3)
      secondsText == FormatNumber((millisecondsPassed \div 1000) % 60, 2)
      minutesText == FormatNumber(millisecondsPassed \div 60000, 2)
  IN  Str(minutesText \o <<":">> \o secondsText \o <<":">> \o millisecondsText)

\* the text of #timer in the page as given
GivenTimerText == Str(<<"0", "0", ":", "0", "0", ":", "0", "0">>)

\* the text resetTimer writes
ResetTimerText == Str(<<"0", "0", ":", "0", "0", ":", "0", "0", "0">>)

\* the page as given, and the script's top-level declarations
StopwatchIdle ==
  /\ startDisabled = FALSE
  /\ stopDisabled = TRUE
  /\ resetDisabled = TRUE
  /\ textContent = GivenTimerText
  /\ frameRequested = FALSE
  /\ lastStartTime = 0
  /\ millisecondsPassedBeforeLastStart = 0
  /\ clock = PageLoadedAt
  /\ phase = "idle"

\* startTimer, from a click on the enabled start button
StartTimer ==
  /\ ~startDisabled
  /\ startDisabled' = TRUE
  /\ stopDisabled' = FALSE
  /\ resetDisabled' = TRUE
  /\ lastStartTime' = clock
  /\ frameRequested' = TRUE
  /\ phase' = "running"
  /\ UNCHANGED <<textContent, millisecondsPassedBeforeLastStart, clock>>
  /\ UNCHANGED RestOfStopwatch

\* stopTimer, from a click on the enabled stop button
StopTimer ==
  /\ ~stopDisabled
  /\ startDisabled' = FALSE
  /\ stopDisabled' = TRUE
  /\ resetDisabled' = FALSE
  /\ millisecondsPassedBeforeLastStart' =
       millisecondsPassedBeforeLastStart + (clock - lastStartTime)
  /\ lastStartTime' = 0
  /\ frameRequested' = FALSE
  /\ phase' = "paused"
  /\ UNCHANGED <<textContent, clock>>
  /\ UNCHANGED RestOfStopwatch

\* resetTimer, from a click on the enabled reset button
ResetTimer ==
  /\ ~resetDisabled
  /\ resetDisabled' = TRUE
  /\ millisecondsPassedBeforeLastStart' = 0
  /\ textContent' = ResetTimerText
  /\ phase' = "idle"
  /\ UNCHANGED <<startDisabled, stopDisabled, frameRequested, lastStartTime,
                 clock>>
  /\ UNCHANGED RestOfStopwatch

\* updateTimer, run by the browser for the requested animation frame
UpdateTimer ==
  /\ frameRequested
  /\ textContent' = UpdateTimerText(clock)
  /\ frameRequested' = TRUE
  /\ UNCHANGED <<startDisabled, stopDisabled, resetDisabled, lastStartTime,
                 millisecondsPassedBeforeLastStart, clock, phase>>
  /\ UNCHANGED RestOfStopwatch

\* FrameMs pass
StopwatchTick ==
  /\ clock < PageLoadedAt + MaxFrames * FrameMs
  /\ clock' = clock + FrameMs
  /\ UNCHANGED <<startDisabled, stopDisabled, resetDisabled, textContent,
                 frameRequested, lastStartTime,
                 millisecondsPassedBeforeLastStart, phase>>
  /\ UNCHANGED RestOfStopwatch

NextStopwatch ==
  \/ StartTimer
  \/ StopTimer
  \/ ResetTimer
  \/ UpdateTimer
  \/ StopwatchTick

\* ======================================================================
\* Part XIV: the Typeahead handlers
\* ======================================================================

QuietMs == 500          \* the delay handleSearch passes to setTimeout
TypingStep == 250       \* milliseconds the clock advances in one step
MaxTypingSteps == 5     \* steps of the clock in one run
MaxKeystrokes == 3      \* setTimeout calls made in one run

\* the texts the user leaves in the field, and the glossary of the API
TypedTexts == {<<>>, <<"a">>, <<"a", "b">>}
Glossary == {<<"a", "b", "c">>}

\* the suggestions the API returns for a text
SuggestionsFor(text) ==
  {term \in Glossary : Len(text) <= Len(term) /\ SubSeq(term, 1, Len(text)) = text}

\* clearSuggestions()
ClearSuggestions(T) ==
  [pending |-> ClearTimeout(T, typeaheadTimeoutId), suggestionsList |-> {}]

\* handleSearch(), typeahead.value being v
HandleSearchKeepsTimer(T, v) ==
  IF Len(v.s) = 0
    THEN [pending |-> ClearSuggestions(T).pending,
          suggestionsList |-> ClearSuggestions(T).suggestionsList,
          timeoutId |-> typeaheadTimeoutId, set |-> FALSE]
    ELSE [pending |-> SetTimeoutAt(T, nextId, QuietMs, NoPayload),
          suggestionsList |-> suggestionsList,
          timeoutId |-> Prim(nextId), set |-> TRUE]

HandleSearch(T, v) ==
  IF Len(v.s) = 0
    THEN [pending |-> ClearSuggestions(T).pending,
          suggestionsList |-> ClearSuggestions(T).suggestionsList,
          timeoutId |-> typeaheadTimeoutId, set |-> FALSE]
    ELSE [pending |-> SetTimeoutAt(ClearTimeout(T, typeaheadTimeoutId),
                                   nextId, QuietMs, NoPayload),
          suggestionsList |-> suggestionsList,
          timeoutId |-> Prim(nextId), set |-> TRUE]

\* fetchDataAndAppend(): url.searchParams.set("text", typeahead.value)
RequestText(v) == v.s

NoFetch == [op |-> "none", text |-> <<>>, field |-> <<>>, quiet |-> 0,
            input |-> <<>>]

TypeaheadIdle ==
  /\ typeaheadValue = EmptyString
  /\ typeaheadTimeoutId = Undefined
  /\ suggestionsList = {}
  /\ requested = {}
  /\ lastInput = [at |-> 0, text |-> <<>>, n |-> 0]
  /\ aLast = NoFetch

\* the page after the script ran, on a host that may run timers late
InitTypeahead ==
  /\ now = StartTime
  /\ onTime \in BOOLEAN
  /\ pending = {}
  /\ nextId = 1
  /\ delay = 1
  /\ TypeaheadIdle

\* an input event that leaves text in the field
InputEvent(text) ==
  /\ text # typeaheadValue.s
  /\ onTime => Due(pending) = {}
  /\ \E out \in {HandleSearch(pending, Str(text))} :
       /\ out.set => nextId <= MaxKeystrokes
       /\ pending' = out.pending
       /\ typeaheadTimeoutId' = out.timeoutId
       /\ suggestionsList' = out.suggestionsList
       /\ nextId' = IF out.set THEN nextId + 1 ELSE nextId
  /\ typeaheadValue' = Str(text)
  /\ lastInput' = [at |-> now, text |-> text, n |-> lastInput.n + 1]
  /\ aLast' = [aLast EXCEPT !.op = "input"]
  /\ UNCHANGED <<now, onTime, delay, requested>>
  /\ UNCHANGED RestOfTypeahead

\* the host runs the timer callback: fetchDataAndAppend() up to its fetch
TypeaheadTimer ==
  /\ \E t \in Due(pending) :
       /\ pending' = pending \ {t}
       /\ requested' = requested \cup {RequestText(typeaheadValue)}
       /\ aLast' = [op |-> "fetch", text |-> RequestText(typeaheadValue),
                    field |-> typeaheadValue.s,
                    quiet |-> now - lastInput.at, input |-> lastInput.text]
  /\ UNCHANGED <<now, onTime, nextId, delay, typeaheadValue,
                 typeaheadTimeoutId, suggestionsList, lastInput>>
  /\ UNCHANGED RestOfTypeahead

\* a response arrives: suggestionsList.replaceChildren(fragment)
TypeaheadResponse(text) ==
  /\ text \in requested
  /\ requested' = requested \ {text}
  /\ suggestionsList' = SuggestionsFor(text)
  /\ aLast' = [aLast EXCEPT !.op = "response"]
  /\ UNCHANGED <<now, onTime, pending, nextId, delay, typeaheadValue,
                 typeaheadTimeoutId, lastInput>>
  /\ UNCHANGED RestOfTypeahead

\* a click on a suggestion: typeahead.value = suggestion; clearSuggestions()
SuggestionClick(suggestion) ==
  /\ suggestion \in suggestionsList
  /\ onTime => Due(pending) = {}
  /\ typeaheadValue' = Str(suggestion)
  /\ pending' = ClearSuggestions(pending).pending
  /\ suggestionsList' = ClearSuggestions(pending).suggestionsList
  /\ aLast' = [aLast EXCEPT !.op = "click"]
  /\ UNCHANGED <<now, onTime, nextId, delay, typeaheadTimeoutId, requested,
                 lastInput>>
  /\ UNCHANGED RestOfTypeahead

\* TypingStep milliseconds pass; an on-time host runs the due timers first
TypeaheadTick ==
  /\ now < StartTime + MaxTypingSteps * TypingStep
  /\ onTime => Due(pending) = {}
  /\ now' = now + TypingStep
  /\ UNCHANGED <<onTime, pending, nextId, delay, typeaheadValue,
                 typeaheadTimeoutId, suggestionsList, requested, lastInput,
                 aLast>>
  /\ UNCHANGED RestOfTypeahead

NextTypeahead ==
  \/ \E text \in TypedTexts : InputEvent(text)
  \/ TypeaheadTimer
  \/ \E text \in TypedTexts \cup Glossary : TypeaheadResponse(text)
  \/ \E suggestion \in Glossary : SuggestionClick(suggestion)
  \/ TypeaheadTick

\* ======================================================================
\* Part XV: the Todo List handlers
\* ======================================================================

MaxTodoLength == 2     \* characters the user leaves in the field
MaxUncaught == 3       \* exceptions reported to the console in one run

\* the texts the field can hold
TodoTexts ==
  {<<>>} \cup {<<x>> : x \in {"a", "b"}}
         \cup {s \in [1 .. MaxTodoLength -> {"a", "b"}] : TRUE}

\* a global identifier that was never assigned
Unbound == [k |-> "unbound"]

\* the identifiers the script's global scope binds: its three constants and
\* four function declarations, and todoItemtext once onInputChange assigned it
GlobalNames(itemtext) ==
  {"todoInput", "addButton", "todoList", "onInputChange", "onAddButtonClick",
   "createNewItem", "onDeleteButtonClick"}
    \cup (IF itemtext = Unbound THEN {} ELSE {"todoItemtext"})

\* onInputChange(event), event.target.value being v
OnInputChange(v, itemtext) ==
  IF Len(v) > 0
    THEN [disabled |-> FALSE, todoItemtext |-> itemtext]
    ELSE [disabled |-> TRUE, todoItemtext |-> JSNull]

\* the li createNewItem builds in its local newItem
NewItemElement(name) ==
  [tag |-> "li", heading |-> name, button |-> "X"]

\* createNewItem(name): what the call evaluates to (it has no return)
CreateNewItem(name) == Undefined

\* onAddButtonClick() on the page st: newItem is looked up in the global
\* scope, the newItem of createNewItem being local to that function
OnAddButtonClick(st) ==
  LET returned == CreateNewItem(st.value)
  IN  IF "newItem" \notin GlobalNames(st.todoItemtext)
        THEN [st EXCEPT !.threw = "ReferenceError"]
        ELSE [st EXCEPT !.items = Append(@, returned),
                        !.value = <<>>,
                        !.disabled = TRUE]

NoTodoEvent == [op |-> "none", enabled |-> FALSE, value |-> <<>>,
                items |-> <<>>]

\* the page as given, after the script ran
TodoListIdle ==
  /\ todoInputValue = <<>>
  /\ addButtonDisabled = TRUE
  /\ todoListItems = <<>>
  /\ todoItemtext = Unbound
  /\ uncaught = 0
  /\ oLast = NoTodoEvent

\* the user changes the text of the field
TodoEdit(text) ==
  /\ text # todoInputValue
  /\ todoInputValue' = text
  /\ oLast' = [oLast EXCEPT !.op = "edit"]
  /\ UNCHANGED <<addButtonDisabled, todoListItems, todoItemtext, uncaught>>
  /\ UNCHANGED RestOfTodoList

\* a key is released in the field
TodoKeyUp ==
  /\ \E out \in {OnInputChange(todoInputValue, todoItemtext)} :
       /\ addButtonDisabled' = out.disabled
       /\ todoItemtext' = out.todoItemtext
  /\ oLast' = [oLast EXCEPT !.op = "keyup"]
  /\ UNCHANGED <<todoInputValue, todoListItems, uncaught>>
  /\ UNCHANGED RestOfTodoList

\* a click on the add button, which a disabled button does not receive
AddButtonClick ==
  /\ ~addButtonDisabled
  /\ uncaught < MaxUncaught
  /\ \E out \in {OnAddButtonClick([value |-> todoInputValue,
                                   disabled |-> addButtonDisabled,
                                   items |-> todoListItems,
                                   todoItemtext |-> todoItemtext,
                                   threw |-> "nothing"])} :
       /\ todoInputValue' = out.value
       /\ addButtonDisabled' = out.disabled
       /\ todoListItems' = out.items
       /\ uncaught' = IF out.threw = "nothing" THEN uncaught ELSE uncaught + 1
  /\ oLast' = [op |-> "add", enabled |-> ~addButtonDisabled,
               value |-> todoInputValue, items |-> todoListItems]
  /\ UNCHANGED todoItemtext
  /\ UNCHANGED RestOfTodoList

NextTodoList ==
  \/ \E text \in TodoTexts : TodoEdit(text)
  \/ TodoKeyUp
  \/ AddButtonClick

\* ======================================================================
\* Part XVI: the Infinite Scroll handlers
\* ======================================================================

PageLimit == 5           \* url.searchParams.set("limit", 5)
MaxTestimonials == 11    \* testimonials the API holds, with ids 1, 2, ...
MaxScrolls == 6          \* scroll events in one run

\* createTestimonialUrl(): the after parameter of the url, if any
CreateTestimonialUrl(cursor) ==
  IF cursor # Undefined /\ cursor # JSNull
    THEN [limit |-> PageLimit, after |-> cursor]
    ELSE [limit |-> PageLimit, after |-> Undefined]

\* the answer of the API to a url: the ids after the cursor, up to the limit
TestimonialsAfter(url) ==
  LET from == IF url.after = Undefined THEN 0 ELSE url.after.n
      upto == IF from + url.limit < testimonialCount
                THEN from + url.limit ELSE testimonialCount
  IN  [hasNext |-> from + url.limit < testimonialCount,
       testimonials |-> [k \in 1 .. upto - from |-> from + k]]

\* fetchTestimonials() up to its first await
FetchTestimonials(st) ==
  [st EXCEPT !.canFetchOnScroll = FALSE,
             !.requests = Append(@, CreateTestimonialUrl(st.afterID))]

\* handleScroll(), scrollHeightFromBottom being positive or not
HandleScrollUngated(st, fromBottom) ==
  IF fromBottom > 0 THEN st ELSE FetchTestimonials(st)

HandleScroll(st, fromBottom) ==
  IF ~st.canFetchOnScroll THEN st
  ELSE IF fromBottom > 0 THEN st
  ELSE FetchTestimonials(st)

\* fetchTestimonials() after its awaits, data being the body of the response
TestimonialsReceived(st, data) ==
  LET n == Len(data.testimonials)
      appended == [st EXCEPT !.feed = @ \o data.testimonials]
  IN  IF ~data.hasNext
        THEN [appended EXCEPT !.listening = FALSE,
                              !.canFetchOnScroll = TRUE]
        ELSE [appended EXCEPT !.afterID = Prim(data.testimonials[n]),
                              !.canFetchOnScroll = TRUE]

\* fetch(url) or response.json() rejects: the await throws, and the async
\* function ends there with a rejected promise
TestimonialsFailedReopens(st) == [st EXCEPT !.canFetchOnScroll = TRUE]

TestimonialsFailed(st) == st

\* the page and the script's variables
ScrollPage ==
  [afterID |-> afterID, canFetchOnScroll |-> canFetchOnScroll,
   feed |-> feed, listening |-> listening, requests |-> scrollRequests]

StoreScrollPage(st) ==
  /\ afterID' = st.afterID
  /\ canFetchOnScroll' = st.canFetchOnScroll
  /\ feed' = st.feed
  /\ listening' = st.listening
  /\ scrollRequests' = st.requests

NoFailure == [at |-> "nothing", feed |-> <<>>, afterID |-> Undefined]

\* the places of the requests in flight
RequestSlots == 1 .. MaxScrolls + 1

NoScroll == [op |-> "none", fetched |-> FALSE, wasPending |-> FALSE,
             wasFinal |-> FALSE, fromBottom |-> 1]

\* the page after the script ran: let afterID; canFetchOnScroll = true; the
\* listener is added and fetchTestimonials() is called once
InitInfiniteScroll ==
  /\ testimonialCount \in 0 .. MaxTestimonials
  /\ \E st \in {FetchTestimonials([afterID |-> Undefined,
                                   canFetchOnScroll |-> TRUE,
                                   feed |-> <<>>,
                                   listening |-> TRUE,
                                   requests |-> <<>>])} :
       /\ afterID = st.afterID
       /\ canFetchOnScroll = st.canFetchOnScroll
       /\ feed = st.feed
       /\ listening = st.listening
       /\ scrollRequests = st.requests
  /\ finalReceived = FALSE
  /\ failedWith = NoFailure
  /\ scrolls = 0
  /\ uLast = NoScroll

\* a scroll event of the container, fromBottom pixels above its end; the
\* handler runs while it is registered
ScrollEvent(fromBottom) ==
  /\ scrolls < MaxScrolls
  /\ scrolls' = scrolls + 1
  /\ \E out \in {IF listening THEN HandleScroll(ScrollPage, fromBottom)
                              ELSE ScrollPage} :
       /\ StoreScrollPage(out)
       /\ uLast' = [op |-> "scroll",
                    fetched |-> Len(out.requests) > Len(scrollRequests),
                    wasPending |-> scrollRequests # <<>>,
                    wasFinal |-> finalReceived,
                    fromBottom |-> fromBottom]
  /\ UNCHANGED <<testimonialCount, finalReceived, failedWith>>
  /\ UNCHANGED RestOfInfiniteScroll

\* the response to request i in flight arrives and is read
TestimonialsResponse(i) ==
  /\ i \in 1 .. Len(scrollRequests)
  /\ \E data \in {TestimonialsAfter(scrollRequests[i])} :
       /\ StoreScrollPage(TestimonialsReceived(
            [ScrollPage EXCEPT !.requests =
               SubSeq(@, 1, i - 1) \o SubSeq(@, i + 1, Len(@))], data))
       /\ finalReceived' = (finalReceived \/ ~data.hasNext)
  /\ uLast' = [uLast EXCEPT !.op = "response"]
  /\ UNCHANGED <<testimonialCount, failedWith, scrolls>>
  /\ UNCHANGED RestOfInfiniteScroll

\* a request fails, at fetch(url) or at response.json()
TestimonialsFailure(i, at) ==
  /\ i \in 1 .. Len(scrollRequests)
  /\ StoreScrollPage(TestimonialsFailed(
       [ScrollPage EXCEPT !.requests =
          SubSeq(@, 1, i - 1) \o SubSeq(@, i + 1, Len(@))]))
  /\ failedWith' = IF failedWith = NoFailure
                     THEN [at |-> at, feed |-> feed, afterID |-> afterID]
                     ELSE failedWith
  /\ uLast' = [uLast EXCEPT !.op = "failure"]
  /\ UNCHANGED <<testimonialCount, finalReceived, scrolls>>
  /\ UNCHANGED RestOfInfiniteScroll

NextInfiniteScroll ==
  \/ \E fromBottom \in {0, 1} : ScrollEvent(fromBottom)
  \/ \E i \in RequestSlots : TestimonialsResponse(i)
  \/ \E i \in RequestSlots, at \in {"fetch", "json"} : TestimonialsFailure(i, at)

\* ======================================================================
\* Part XVII: Function.prototype.myCall
\* ======================================================================

MaxSymbols == 3     \* Symbol() calls in one run

\* the string keys of the target object and of the called functions
PropertyNames == {"num", "x"}

\* the functions called: each may set or delete one string property of
\* this, and returns or throws
CalledFunctions ==
  [sets : PropertyNames \cup {"none"}, deletes : PropertyNames \cup {"none"},
   throws : BOOLEAN]

\* the body of the called function, on the own keys of this
CallBody(obj, fn) ==
  [obj EXCEPT !.names = (@ \cup ({fn.sets} \ {"none"})) \ {fn.deletes}]

\* fn.myCall(thisContext, ...args), thisContext being obj and Symbol()
\* returning symbol; what the call leaves of obj and how it ends
MyCall(obj, fn, symbol) ==
  IF ~obj.extensible
    THEN [obj |-> obj, outcome |-> "TypeError"]
    ELSE LET installed == [obj EXCEPT !.symbols = @ \cup {symbol}]
             after     == CallBody(installed, fn)
         IN  IF fn.throws
               THEN [obj |-> after, outcome |-> "threw"]
               ELSE [obj |-> [after EXCEPT !.symbols = @ \ {symbol}],
                     outcome |-> "returned"]

NoMyCall == [op |-> "none", outcome |-> "none", symbol |-> 0,
             names |-> {}, symbols |-> {},
             fn |-> [sets |-> "none", deletes |-> "none", throws |-> FALSE]]

\* a target object: const obj = { num: 0 }, possibly frozen
InitMyCall ==
  /\ targetNames = {"num"}
  /\ targetSymbols = {}
  /\ targetExtensible \in BOOLEAN
  /\ symbolsCreated = 0
  /\ bLast = NoMyCall

\* fn.myCall(obj, ...args)
CallMyCall(fn) ==
  /\ symbolsCreated < MaxSymbols
  /\ symbolsCreated' = symbolsCreated + 1
  /\ \E out \in {MyCall([names |-> targetNames, symbols |-> targetSymbols,
                         extensible |-> targetExtensible],
                        fn, symbolsCreated + 1)} :
       /\ targetNames' = out.obj.names
       /\ targetSymbols' = out.obj.symbols
       /\ bLast' = [op |-> "myCall", outcome |-> out.outcome,
                    symbol |-> symbolsCreated + 1,
                    names |-> targetNames, symbols |-> targetSymbols,
                    fn |-> fn]
  /\ UNCHANGED targetExtensible
  /\ UNCHANGED RestOfMyCall

\* user code sets or deletes a string property of the target
WriteTarget(name) ==
  /\ targetExtensible
  /\ targetNames' = IF name \in targetNames THEN targetNames \ {name}
                                           ELSE targetNames \cup {name}
  /\ bLast' = [bLast EXCEPT !.op = "write"]
  /\ UNCHANGED <<targetSymbols, targetExtensible, symbolsCreated>>
  /\ UNCHANGED RestOfMyCall

NextMyCall ==
  \/ \E fn \in CalledFunctions : CallMyCall(fn)
  \/ \E name \in PropertyNames : WriteTarget(name)

\* ======================================================================
\* Part XVIII: the test framework, describe / it / expect
\* ======================================================================

MaxCases == 2         \* it() calls in the suite function
MaxAssertions == 2    \* expect() calls in a case function

\* expect(true).toBe(true) and expect(true).toBe(false)
Assertions == {[actual |-> TRUE, expected |-> TRUE],
               [actual |-> TRUE, expected |-> FALSE]}

\* the bodies of the case functions, and the suite functions made of them
CaseFunctions ==
  UNION {[1 .. n -> Assertions] : n \in 0 .. MaxAssertions}
SuiteFunctions ==
  UNION {[1 .. n -> CaseFunctions] : n \in 0 .. MaxCases}

NoMessage == [actual |-> FALSE, expected |-> FALSE, thrown |-> FALSE]

\* expect(actual).toBe(expected): the string it throws, if any
ToBe(actual, expected) ==
  IF actual # expected
    THEN [actual |-> actual, expected |-> expected, thrown |-> TRUE]
    ELSE NoMessage

\* the catch block of it(): throw { testCaseName, errorMessage }
ItCatchSwallows(testCaseName, errorMessage) ==
  [testCaseName |-> testCaseName, errorMessage |-> errorMessage,
   thrown |-> FALSE]

ItCatch(testCaseName, errorMessage) ==
  [testCaseName |-> testCaseName, errorMessage |-> errorMessage,
   thrown |-> TRUE]

\* a line of the console
Line(level, text, name, message) ==
  [level |-> level, text |-> text, name |-> name, message |-> message]

\* the catch block of describe(): console.error(...)
DescribeCatch(error) ==
  Line("error", "failed running test suite", error.testCaseName,
       error.errorMessage)

\* describe(testSuiteName, func) has been called and has not logged yet
InitTestFramework ==
  /\ suiteFunction \in SuiteFunctions
  /\ testStage = "describe"
  /\ testCase = 0
  /\ testAssertion = 0
  /\ console = <<>>
  /\ assertionsRun = {}
  /\ casesRun = {}

\* describe: console.log(`beginning test suite ...`); try { func()
DescribeBegin ==
  /\ testStage = "describe"
  /\ console' = Append(console, Line("log", "beginning test suite", 0,
                                     NoMessage))
  /\ testStage' = "suite"
  /\ testCase' = 1
  /\ UNCHANGED <<suiteFunction, testAssertion, assertionsRun, casesRun>>
  /\ UNCHANGED RestOfTestFramework

\* it: console.log(`beginning test case ...`); try { func()
ItBegin ==
  /\ testStage = "suite" /\ testCase <= Len(suiteFunction)
  /\ console' = Append(console, Line("log", "beginning test case", testCase,
                                     NoMessage))
  /\ casesRun' = casesRun \cup {testCase}
  /\ testStage' = "case"
  /\ testAssertion' = 1
  /\ UNCHANGED <<suiteFunction, testCase, assertionsRun>>
  /\ UNCHANGED RestOfTestFramework

\* the next expect(...).toBe(...) of the case function runs; what it throws
\* passes through the catch of it() and the catch of describe()
RunAssertion ==
  /\ testStage = "case" /\ testAssertion <= Len(suiteFunction[testCase])
  /\ assertionsRun' = assertionsRun \cup {<<testCase, testAssertion>>}
  /\ \E errorMessage \in {ToBe(suiteFunction[testCase][testAssertion].actual,
                               suiteFunction[testCase][testAssertion].expected)} :
       IF ~errorMessage.thrown
         THEN /\ testAssertion' = testAssertion + 1
              /\ UNCHANGED <<console, testStage, testCase>>
         ELSE \E error \in {ItCatch(testCase, errorMessage)} :
                IF error.thrown
                  THEN /\ console' = Append(console, DescribeCatch(error))
                       /\ testStage' = "returned"
                       /\ UNCHANGED <<testCase, testAssertion>>
                  ELSE /\ testStage' = "suite"
                       /\ testCase' = testCase + 1
                       /\ UNCHANGED <<console, testAssertion>>
  /\ UNCHANGED <<suiteFunction, casesRun>>
  /\ UNCHANGED RestOfTestFramework

\* it: the case function returned: console.log(`successfully completed ...`)
ItEnd ==
  /\ testStage = "case" /\ testAssertion > Len(suiteFunction[testCase])
  /\ console' = Append(console, Line("log", "successfully completed test case",
                                     testCase, NoMessage))
  /\ testStage' = "suite"
  /\ testCase' = testCase + 1
  /\ UNCHANGED <<suiteFunction, testAssertion, assertionsRun, casesRun>>
  /\ UNCHANGED RestOfTestFramework

\* describe: the suite function returned: console.log(`successfully ...`)
DescribeEnd ==
  /\ testStage = "suite" /\ testCase > Len(suiteFunction)
  /\ console' = Append(console, Line("log",
                                     "successfully completed test suite", 0,
                                     NoMessage))
  /\ testStage' = "returned"
  /\ UNCHANGED <<suiteFunction, testCase, testAssertion, assertionsRun,
                 casesRun>>
  /\ UNCHANGED RestOfTestFramework

NextTestFramework ==
  \/ DescribeBegin
  \/ ItBegin
  \/ RunAssertion
  \/ ItEnd
  \/ DescribeEnd

\* ======================================================================
\* Part XIX: deepEquals(valueOne, valueTwo)
\* ======================================================================

MaxLength == 2     \* the longest array compared

NotANumber == [k |-> "nan"]
ArrayOf(items) == [k |-> "array", items |-> items]
\* a plain record: its keys in insertion order, and the value of each
ObjectOf(keys, vals) == [k |-> "object", keys |-> keys, vals |-> vals]

\* the values compared: primitives, arrays and records of primitives, and
\* arrays and records holding one short array or record
Primitives == {Prim(1), NotANumber, Str(<<"1">>), JSNull, Undefined}
KeyLists == {<<>>, <<"a">>, <<"b">>, <<"a", "b">>, <<"b", "a">>}
Range(s) == {s[i] : i \in 1 .. Len(s)}
ArraysOf(E, n) == {ArrayOf(s) : s \in UNION {[1 .. m -> E] : m \in 0 .. n}}
ObjectsOf(E, K) ==
  UNION {{ObjectOf(keys, vals) : vals \in [Range(keys) -> E]} : keys \in K}
ShortContainers ==
  ArraysOf(Primitives, 1) \cup ObjectsOf(Primitives, {<<>>, <<"a">>, <<"b">>})
ComparedValues ==
  Primitives \cup ArraysOf(Primitives, MaxLength) \cup ObjectsOf(Primitives, KeyLists)
    \cup ArraysOf(ShortContainers, 1) \cup ObjectsOf(ShortContainers, {<<"a">>})

\* typeof val
TypeOf(val) ==
  CASE val.k \in {"prim", "nan"} -> "number"
    [] val.k = "string" -> "string"
    [] val.k = "undefined" -> "undefined"
    [] OTHER -> "object"

\* valueOne === valueTwo for two values of one type; same tells whether two
\* objects are one object
StrictEquals(valueOne, valueTwo, same) ==
  CASE valueOne.k # valueTwo.k -> FALSE
    [] valueOne.k = "prim" -> valueOne.n = valueTwo.n
    [] valueOne.k = "string" -> valueOne.s = valueTwo.s
    [] valueOne.k = "nan" -> FALSE
    [] valueOne.k \in {"null", "undefined"} -> TRUE
    [] OTHER -> same

\* val[key]
GetProperty(val, key) ==
  IF key \in DOMAIN val.vals THEN val.vals[key] ELSE Undefined

\* valueTwoKeys.includes(key)
KeysIncludeAlways(valueTwoKeys, key) == TRUE

KeysInclude(valueTwoKeys, key) ==
  \E i \in 1 .. Len(valueTwoKeys) : valueTwoKeys[i] = key

RECURSIVE DeepEquals(_, _, _)
DeepEquals(valueOne, valueTwo, same) ==
  IF TypeOf(valueOne) # TypeOf(valueTwo) THEN FALSE
  ELSE IF TypeOf(valueOne) # "object"
    THEN IF valueOne.k = "nan" /\ valueTwo.k = "nan" THEN TRUE
         ELSE StrictEquals(valueOne, valueTwo, same)
  ELSE IF valueOne.k = "null" \/ valueTwo.k = "null"
    THEN StrictEquals(valueOne, valueTwo, same)
  ELSE IF StrictEquals(valueOne, valueTwo, same) THEN TRUE
  ELSE IF valueOne.k = "array" /\ valueTwo.k = "array"
    THEN IF Len(valueOne.items) # Len(valueTwo.items) THEN FALSE
         ELSE \A i \in 1 .. Len(valueOne.items) :
                DeepEquals(valueOne.items[i], valueTwo.items[i], FALSE)
  ELSE IF valueOne.k = "array" \/ valueTwo.k = "array" THEN FALSE
  ELSE LET valueOneKeys == valueOne.keys
           valueTwoKeys == valueTwo.keys
       IN  IF Len(valueOneKeys) # Len(valueTwoKeys) THEN FALSE
           ELSE \A i \in 1 .. Len(valueOneKeys) :
                  /\ KeysInclude(valueTwoKeys, valueOneKeys[i])
                  /\ DeepEquals(GetProperty(valueOne, valueOneKeys[i]),
                                GetProperty(valueTwo, valueOneKeys[i]), FALSE)

NotCompared == [called |-> FALSE, forth |-> FALSE, back |-> FALSE]

\* two values; two objects of the same structure may be one object
InitDeepEquals ==
  /\ firstValue \in ComparedValues
  /\ sameObject \in BOOLEAN
  /\ secondValue \in (IF sameObject THEN {firstValue} ELSE ComparedValues)
  /\ sameObject => firstValue.k \in {"array", "object"}
  /\ compared = NotCompared

\* deepEquals(a, b) and deepEquals(b, a) for the two values
CallDeepEquals ==
  /\ ~compared.called
  /\ compared' = [called |-> TRUE,
                  forth |-> DeepEquals(firstValue, secondValue, sameObject),
                  back |-> DeepEquals(secondValue, firstValue, sameObject)]
  /\ UNCHANGED <<firstValue, secondValue, sameObject>>
  /\ UNCHANGED RestOfDeepEquals

NextDeepEquals == CallDeepEquals

\* ======================================================================
\* Specifications: one per exercise, the other exercises' state at rest
\* ======================================================================

IdleCombinators == nInputs = 1 /\ CombIdle
IdleMemoize == resolver = "none" /\ MemoIdle
IdleTimed == HostIdle /\ DebounceIdle /\ ThrottleIdle
IdleReact == GameIdle /\ WordleIdle
\* an exercise that is not loaded: its variables hold nothing
Unloaded == "unloaded"

QuizUnloaded ==
  /\ questions = Unloaded
  /\ currentQuestionIndex = Unloaded
  /\ selectedAnswers = Unloaded
  /\ firstPick = Unloaded
  /\ qLast = Unloaded

MemoryUnloaded ==
  /\ tiles = Unloaded
  /\ selectedTiles = Unloaded
  /\ matchedTiles = Unloaded
  /\ effectPending = Unloaded
  /\ memoryTimer = Unloaded
  /\ hasCleanup = Unloaded
  /\ mounted = Unloaded
  /\ yLast = Unloaded

CryptoUnloaded ==
  /\ lastPage = Unloaded
  /\ currentPage = Unloaded
  /\ coins = Unloaded
  /\ isNextPage = Unloaded
  /\ requests = Unloaded
  /\ fetchFailed = Unloaded

PhoneUnloaded ==
  /\ inputValue = Unloaded
  /\ iLast = Unloaded

EventTargetUnloaded ==
  /\ eventListenerMap = Unloaded
  /\ registered = Unloaded
  /\ eLast = Unloaded

TierListUnloaded ==
  /\ children = Unloaded
  /\ draggedItem = Unloaded
  /\ lLast = Unloaded

StopwatchUnloaded ==
  /\ startDisabled = Unloaded
  /\ stopDisabled = Unloaded
  /\ resetDisabled = Unloaded
  /\ textContent = Unloaded
  /\ frameRequested = Unloaded
  /\ lastStartTime = Unloaded
  /\ millisecondsPassedBeforeLastStart = Unloaded
  /\ clock = Unloaded
  /\ phase = Unloaded

TypeaheadUnloaded ==
  /\ typeaheadValue = Unloaded
  /\ typeaheadTimeoutId = Unloaded
  /\ suggestionsList = Unloaded
  /\ requested = Unloaded
  /\ lastInput = Unloaded
  /\ aLast = Unloaded

TodoListUnloaded ==
  /\ todoInputValue = Unloaded
  /\ addButtonDisabled = Unloaded
  /\ todoListItems = Unloaded
  /\ todoItemtext = Unloaded
  /\ uncaught = Unloaded
  /\ oLast = Unloaded

InfiniteScrollUnloaded ==
  /\ testimonialCount = Unloaded
  /\ afterID = Unloaded
  /\ canFetchOnScroll = Unloaded
  /\ feed = Unloaded
  /\ listening = Unloaded
  /\ scrollRequests = Unloaded
  /\ finalReceived = Unloaded
  /\ failedWith = Unloaded
  /\ scrolls = Unloaded
  /\ uLast = Unloaded

MyCallUnloaded ==
  /\ targetNames = Unloaded
  /\ targetSymbols = Unloaded
  /\ targetExtensible = Unloaded
  /\ symbolsCreated = Unloaded
  /\ bLast = Unloaded

TestFrameworkUnloaded ==
  /\ suiteFunction = Unloaded
  /\ testStage = Unloaded
  /\ testCase = Unloaded
  /\ testAssertion = Unloaded
  /\ console = Unloaded
  /\ assertionsRun = Unloaded
  /\ casesRun = Unloaded

DeepEqualsUnloaded ==
  /\ firstValue = Unloaded
  /\ secondValue = Unloaded
  /\ sameObject = Unloaded
  /\ compared = Unloaded

IdlePages == QuizUnloaded /\ MemoryUnloaded /\ CryptoUnloaded /\ PhoneUnloaded /\ EventTargetUnloaded /\ TierListUnloaded /\ StopwatchUnloaded /\ TypeaheadUnloaded /\ TodoListUnloaded /\ InfiniteScrollUnloaded /\ MyCallUnloaded /\ TestFrameworkUnloaded /\ DeepEqualsUnloaded
IdleAll == InitPromise /\ IdleCombinators /\ IdleMemoize /\ IdleTimed /\ IdleReact

Init ==
  /\ InitPromise
  /\ IdleCombinators /\ IdleMemoize /\ IdleTimed /\ IdleReact
  /\ IdlePages

Next ==
  \/ NewPromise
  \/ ExecutorReturn
  \/ \E v \in Values : ExecutorThrow(v)
  \/ \E p \in PIds, v \in Values : CallResolve(p, v)
  \/ \E p \in PIds, v \in Values : CallReject(p, v)
  \/ \E p \in PIds, f \in HandlerKinds, r \in HandlerKinds : Then(p, f, r)
  \/ SetTimeout
  \/ EndTask
  \/ RunMicrotask
  \/ TimerFire

Spec == Init /\ [][Next]_vars

InitC ==
  /\ InitPromise
  /\ InitCombinators
  /\ IdleMemoize /\ IdleTimed /\ IdleReact
  /\ IdlePages

SpecCombinators == InitC /\ [][NextCombinators]_vars

InitM ==
  /\ InitPromise
  /\ IdleCombinators
  /\ InitMemoize
  /\ IdleTimed /\ IdleReact
  /\ IdlePages

SpecMemoize == InitM /\ [][NextMemoize]_vars

\* debounce on a host whose timers may run late
InitD ==
  /\ InitPromise /\ IdleCombinators /\ IdleMemoize
  /\ InitHost /\ InitDebounce /\ ThrottleIdle
  /\ IdleReact
  /\ IdlePages

SpecDebounce == InitD /\ [][NextDebounce]_vars

\* debounce on a host that runs every timer at its due time
InitDOnTime ==
  /\ InitPromise /\ IdleCombinators /\ IdleMemoize
  /\ InitHost /\ onTime /\ InitDebounce /\ ThrottleIdle
  /\ IdleReact
  /\ IdlePages

SpecDebounceOnTime == InitDOnTime /\ [][NextDebounce]_vars

\* throttle on a host whose timers may run late
InitT ==
  /\ InitPromise /\ IdleCombinators /\ IdleMemoize
  /\ InitHost /\ DebounceIdle /\ ThrottleIdle
  /\ IdleReact
  /\ IdlePages

SpecThrottle == InitT /\ [][NextThrottle]_vars

\* throttle on a host that runs every timer at its due time
InitTOnTime ==
  /\ InitPromise /\ IdleCombinators /\ IdleMemoize
  /\ InitHost /\ onTime /\ DebounceIdle /\ ThrottleIdle
  /\ IdleReact
  /\ IdlePages

SpecThrottleOnTime == InitTOnTime /\ [][NextThrottle]_vars

InitG ==
  /\ InitPromise /\ IdleCombinators /\ IdleMemoize /\ IdleTimed
  /\ InitConnectFour /\ WordleIdle
  /\ IdlePages

SpecConnectFour == InitG /\ [][NextConnectFour]_vars

InitW ==
  /\ InitPromise /\ IdleCombinators /\ IdleMemoize /\ IdleTimed
  /\ GameIdle /\ WordleIdle
  /\ IdlePages

SpecWordle == InitW /\ [][NextWordle]_vars

InitQ == IdleAll /\ QuizIdle /\ MemoryUnloaded /\ CryptoUnloaded /\ PhoneUnloaded /\ EventTargetUnloaded /\ TierListUnloaded /\ StopwatchUnloaded /\ TypeaheadUnloaded /\ TodoListUnloaded /\ InfiniteScrollUnloaded /\ MyCallUnloaded /\ TestFrameworkUnloaded /\ DeepEqualsUnloaded

SpecQuiz == InitQ /\ [][NextQuiz]_vars

InitY == IdleAll /\ InitMemory /\ QuizUnloaded /\ CryptoUnloaded /\ PhoneUnloaded /\ EventTargetUnloaded /\ TierListUnloaded /\ StopwatchUnloaded /\ TypeaheadUnloaded /\ TodoListUnloaded /\ InfiniteScrollUnloaded /\ MyCallUnloaded /\ TestFrameworkUnloaded /\ DeepEqualsUnloaded

SpecMemory == InitY /\ [][NextMemory]_vars

\* React runs the pending effect, the clock advances, the host runs due timers
SpecMemoryFair ==
  /\ InitY
  /\ [][NextMemory]_vars
  /\ WF_vars(MemoryEffect)
  /\ WF_vars(MemoryTick)
  /\ WF_vars(MemoryTimeout)

InitK == IdleAll /\ InitCrypto /\ QuizUnloaded /\ MemoryUnloaded /\ PhoneUnloaded /\ EventTargetUnloaded /\ TierListUnloaded /\ StopwatchUnloaded /\ TypeaheadUnloaded /\ TodoListUnloaded /\ InfiniteScrollUnloaded /\ MyCallUnloaded /\ TestFrameworkUnloaded /\ DeepEqualsUnloaded

SpecCrypto == InitK /\ [][NextCrypto]_vars

InitI == IdleAll /\ PhoneIdle /\ QuizUnloaded /\ MemoryUnloaded /\ CryptoUnloaded /\ EventTargetUnloaded /\ TierListUnloaded /\ StopwatchUnloaded /\ TypeaheadUnloaded /\ TodoListUnloaded /\ InfiniteScrollUnloaded /\ MyCallUnloaded /\ TestFrameworkUnloaded /\ DeepEqualsUnloaded

SpecPhone == InitI /\ [][NextPhone]_vars

InitE == IdleAll /\ EventTargetIdle /\ QuizUnloaded /\ MemoryUnloaded /\ CryptoUnloaded /\ PhoneUnloaded /\ TierListUnloaded /\ StopwatchUnloaded /\ TypeaheadUnloaded /\ TodoListUnloaded /\ InfiniteScrollUnloaded /\ MyCallUnloaded /\ TestFrameworkUnloaded /\ DeepEqualsUnloaded

SpecEventTarget == InitE /\ [][NextEventTarget]_vars

InitL == IdleAll /\ TierListIdle /\ QuizUnloaded /\ MemoryUnloaded /\ CryptoUnloaded /\ PhoneUnloaded /\ EventTargetUnloaded /\ StopwatchUnloaded /\ TypeaheadUnloaded /\ TodoListUnloaded /\ InfiniteScrollUnloaded /\ MyCallUnloaded /\ TestFrameworkUnloaded /\ DeepEqualsUnloaded

SpecTierList == InitL /\ [][NextTierList]_vars

InitS == IdleAll /\ StopwatchIdle /\ QuizUnloaded /\ MemoryUnloaded /\ CryptoUnloaded /\ PhoneUnloaded /\ EventTargetUnloaded /\ TierListUnloaded /\ TypeaheadUnloaded /\ TodoListUnloaded /\ InfiniteScrollUnloaded /\ MyCallUnloaded /\ TestFrameworkUnloaded /\ DeepEqualsUnloaded

SpecStopwatch == InitS /\ [][NextStopwatch]_vars

InitA ==
  /\ InitPromise /\ IdleCombinators /\ IdleMemoize
  /\ DebounceIdle /\ ThrottleIdle /\ IdleReact
  /\ InitTypeahead /\ QuizUnloaded /\ MemoryUnloaded /\ CryptoUnloaded /\ PhoneUnloaded /\ EventTargetUnloaded /\ TierListUnloaded /\ StopwatchUnloaded /\ TodoListUnloaded /\ InfiniteScrollUnloaded /\ MyCallUnloaded /\ TestFrameworkUnloaded /\ DeepEqualsUnloaded

SpecTypeahead == InitA /\ [][NextTypeahead]_vars

InitO == IdleAll /\ TodoListIdle /\ QuizUnloaded /\ MemoryUnloaded /\ CryptoUnloaded /\ PhoneUnloaded /\ EventTargetUnloaded /\ TierListUnloaded /\ StopwatchUnloaded /\ TypeaheadUnloaded /\ InfiniteScrollUnloaded /\ MyCallUnloaded /\ TestFrameworkUnloaded /\ DeepEqualsUnloaded

SpecTodoList == InitO /\ [][NextTodoList]_vars

InitU == IdleAll /\ InitInfiniteScroll /\ QuizUnloaded /\ MemoryUnloaded /\ CryptoUnloaded /\ PhoneUnloaded /\ EventTargetUnloaded /\ TierListUnloaded /\ StopwatchUnloaded /\ TypeaheadUnloaded /\ TodoListUnloaded /\ MyCallUnloaded /\ TestFrameworkUnloaded /\ DeepEqualsUnloaded

SpecInfiniteScroll == InitU /\ [][NextInfiniteScroll]_vars

InitB == IdleAll /\ InitMyCall /\ QuizUnloaded /\ MemoryUnloaded /\ CryptoUnloaded /\ PhoneUnloaded /\ EventTargetUnloaded /\ TierListUnloaded /\ StopwatchUnloaded /\ TypeaheadUnloaded /\ TodoListUnloaded /\ InfiniteScrollUnloaded /\ TestFrameworkUnloaded /\ DeepEqualsUnloaded

SpecMyCall == InitB /\ [][NextMyCall]_vars

InitF == IdleAll /\ InitTestFramework /\ QuizUnloaded /\ MemoryUnloaded /\ CryptoUnloaded /\ PhoneUnloaded /\ EventTargetUnloaded /\ TierListUnloaded /\ StopwatchUnloaded /\ TypeaheadUnloaded /\ TodoListUnloaded /\ InfiniteScrollUnloaded /\ MyCallUnloaded /\ DeepEqualsUnloaded

SpecTestFramework == InitF /\ [][NextTestFramework]_vars

InitV == IdleAll /\ InitDeepEquals /\ QuizUnloaded /\ MemoryUnloaded /\ CryptoUnloaded /\ PhoneUnloaded /\ EventTargetUnloaded /\ TierListUnloaded /\ StopwatchUnloaded /\ TypeaheadUnloaded /\ TodoListUnloaded /\ InfiniteScrollUnloaded /\ MyCallUnloaded /\ TestFrameworkUnloaded

SpecDeepEquals == InitV /\ [][NextDeepEquals]_vars

\* the combinators called with any list, the empty one included; the event
\* loop always runs a queued microtask and every macrotask ends
InitCE ==
  /\ InitPromise
  /\ nInputs \in 0 .. MaxInputs /\ CombIdle
  /\ IdleMemoize /\ IdleTimed /\ IdleReact
  /\ IdlePages

SpecCombinatorsFair ==
  /\ InitCE /\ [][NextCombinators]_vars
  /\ WF_vars(RunNativeJob) /\ WF_vars(EndMacrotask)



\* ------------------------------------------------------------- MyPromise claims

\* C1: once a promise's state has left "pending", no later resolve call, reject
\* call or executor throw changes its state or its value.
SettledIsFinal ==
  [][\A p \in PIds : state[p] # PENDING =>
        (state'[p] = state[p] /\ value'[p] = value[p])]_vars

\* C2: every handler registered through then() runs at most once.
HandlersRunAtMostOnce ==
  \A c \in PIds : runs[c].F <= 1 /\ runs[c].R <= 1

\* C3: a supplied handler is only ever run as a microtask: with no macrotask
\* running, with no then(), resolve or reject call on the stack, and before any
\* timer callback that was pending when it was scheduled.
HandlersRunAsMicrotasks ==
  \A r \in runLog : ~r.inTask /\ r.frames = 0 /\ r.fired = 0

\* C3 witness: a handler has run after the script ended while a timer registered
\* by the script is still waiting.
HandlerRanBeforePendingTimer ==
  /\ ~running /\ timers > 0 /\ timersFired = 0
  /\ \E r \in runLog : ~r.inTask

\* C4: while a promise is rejected with v, every promise a then() without
\* rejection handler returned for it is rejected with the same v, and that
\* then()'s fulfilment handler has not run.
RejectionPropagates ==
  \A c \in 1 .. created :
    (parent[c] # 0 /\ onRejected[c] = "none" /\ state[parent[c]] = REJECTED)
      => /\ state[c] = REJECTED
         /\ value[c] = value[parent[c]]
         /\ runs[c].F = 0

\* ------------------------------------------------------------- combinator claims

Min(S) == CHOOSE x \in S : \A y \in S : x <= y
Inputs == 1 .. nInputs
SettledInputs == {i \in Inputs : np[i].st # PENDING}
RejectedInputs == {i \in Inputs : np[i].st = REJECTED}
PositionOf(i) == CHOOSE j \in 1 .. Len(settleOrder) : settleOrder[j] = i
\* the inputs that had settled when the combinator was called
SettledBeforeCall == {i \in SettledInputs : PositionOf(i) <= settledAtCall}

\* the member of S (settled inputs) that settled first in time
FirstInTime(S) == settleOrder[Min({PositionOf(i) : i \in S})]
\* the member of S whose settlement the combinator meets first: inputs already
\* settled at the call are met in list order by the forEach, the others as
\* they settle
FirstMet(S) ==
  IF S \cap SettledBeforeCall # {} THEN Min(S \cap SettledBeforeCall)
  ELSE FirstInTime(S)

\* C5: the promise myRace returned settles with the outcome (state and value)
\* of the input that settled first, also when that outcome is a rejection.
RaceSettlesWithFirstSettled ==
  (called = "myRace" /\ result.st # PENDING)
    => result = np[FirstMet(SettledInputs)]

\* C6: the promise myAny returned is rejected only in states where every input
\* has rejected.
AnyRejectsOnlyWhenAllRejected ==
  (called = "myAny" /\ result.st = REJECTED)
    => \A i \in Inputs : np[i].st = REJECTED

\* myAll fulfils only once every input has fulfilled, with the array of the
\* inputs' values in input order
AllFulfilsInInputOrder ==
  result.st = FULFILLED =>
    /\ \A i \in Inputs : np[i].st = FULFILLED
    /\ result.val.k = "array" /\ result.val.len = nInputs
    /\ \A i \in Inputs : result.val.items[i] = np[i].val

\* C7 as stated: myAll fulfils after the last input has fulfilled with the
\* values in input order, and if some input rejects it rejects with the reason
\* of the input that rejected first in time.
AllRejectsWithFirstInTime ==
  called = "myAll" =>
    /\ AllFulfilsInInputOrder
    /\ result.st = REJECTED => result.val = np[FirstInTime(RejectedInputs)].val

\* C7 amended: myAll fulfils after the last input has fulfilled with the values
\* in input order, and if some input rejects it rejects with the reason of the
\* rejection it meets first: the lowest-indexed input among those already
\* rejected when myAll is called, otherwise the input that rejects first in
\* time after the call; later outcomes do not change that.
AllRejectsWithFirstMet ==
  called = "myAll" =>
    /\ AllFulfilsInInputOrder
    /\ result.st = REJECTED => result.val = np[FirstMet(RejectedInputs)].val
    /\ RejectedInputs # {} => result.st # FULFILLED

\* C7 witness: myAll has rejected, two inputs have rejected after the call, all
\* microtasks have run.
AllRejectedWithTwoRejections ==
  /\ called = "myAll" /\ result.st = REJECTED /\ jobs = <<>>
  /\ SettledBeforeCall = {}
  /\ Cardinality(RejectedInputs) >= 2

\* the descriptor myAllSettled reports for a settled input
DescriptorOf(i) ==
  IF np[i].st = FULFILLED THEN FulfilledDescriptor(np[i].val)
  ELSE RejectedDescriptor(np[i].val)

\* C8: the promise myAllSettled returned is never rejected; it is fulfilled
\* only when every input has settled, with an array as long as the input list
\* whose element i describes input i.
AllSettledNeverRejects ==
  called = "myAllSettled" =>
    /\ result.st # REJECTED
    /\ result.st = FULFILLED =>
         /\ \A i \in Inputs : np[i].st # PENDING
         /\ result.val.k = "array" /\ result.val.len = nInputs
         /\ \A i \in Inputs : result.val.items[i] = DescriptorOf(i)

\* C8 witness: myAllSettled has fulfilled over a fulfilled and a rejected input,
\* the input listed last having settled first.
AllSettledMixedOutcome ==
  /\ called = "myAllSettled" /\ result.st = FULFILLED
  /\ nInputs >= 2 /\ settleOrder[1] = nInputs
  /\ \E i, j \in Inputs : np[i].st = FULFILLED /\ np[j].st = REJECTED

\* ------------------------------------------------------------- memoize claims

\* C9: a call invokes the wrapped function exactly when no entry exists for its
\* key (no call for the key since the last delete of it or clear); otherwise it
\* returns the value stored at the most recent miss for the key.
CallInvokesOnMissOnly ==
  last.op = "call" =>
    /\ last.invoked <=> ~last.wasLive
    /\ ~last.invoked => last.ret = last.wasStored

\* C9 witness: a call has been answered from the cache after two invocations of
\* the wrapped function.
CallHitAfterMisses ==
  last.op = "call" /\ ~last.invoked /\ callCount >= 2

\* C10: has() returns the boolean true exactly for a key called since the last
\* delete of that key or clear, and false otherwise; the cache holds exactly
\* those keys, each with the value stored at its most recent miss, so delete
\* removes its key alone and clear removes everything.
HasReportsLiveKeys ==
  /\ last.op = "has" => last.ret = JSBool(last.wasLive)
  /\ {e.key : e \in cache} = live
  /\ cache = storedAtMiss

\* C10 witness: has() has answered true for a cached key after two invocations
\* of which only one entry is left (the other was deleted or cleared).
HasTrueAfterRemoval ==
  /\ last.op = "has" /\ last.ret = JSBool(TRUE)
  /\ callCount >= 2 /\ Cardinality(cache) = 1

\* ------------------------------------------------------------- debounce claims

\* C11: without immediate, on a host that runs timers at their due time, the
\* callback runs exactly once per burst (a maximal run of calls each less
\* than delay after the one before), from the timer delay ms after the
\* burst's last call, with the arguments and this of that last call; no call
\* runs it synchronously.
OncePerBurstAfterDelay ==
  ~immediate =>
    /\ closed \subseteq {1}
    /\ pending # {} => burst.invoked = 0
    /\ (pending = {} /\ burst.calls > 0) => burst.invoked = 1
    /\ \A t \in pending : t.due = burst.at + delay
    /\ dLast.op = "call" => dLast.ran = NoPayload
    /\ dLast.op = "timer" => /\ dLast.ran = burst.p
                             /\ dLast.at = burst.at + delay

\* a second burst, of two calls, has just been invoked
SecondBurstInvoked ==
  /\ ~immediate
  /\ closed = {1}
  /\ burst.calls >= 2
  /\ dLast.op = "timer" /\ dLast.ran = burst.p

\* C12: with immediate, a call runs the callback synchronously, with its own
\* arguments, exactly when no cooldown timer is pending; every call leaves
\* one cooldown timer, due delay ms after it; a timer expiry never runs the
\* callback.
ImmediateInvokesOnLeadingCall ==
  immediate =>
    /\ dLast.op = "call" =>
         /\ dLast.ran = (IF dLast.cooling THEN NoPayload ELSE dLast.p)
         /\ \E t \in pending : pending = {t} /\ t.due = dLast.at + delay
    /\ dLast.op = "timer" => dLast.ran = NoPayload

\* a call ran the callback again after a quiet call and an expired cooldown
InvokedAgainAfterCooldown ==
  /\ immediate
  /\ dLast.op = "call" /\ dLast.ran = dLast.p
  /\ dLast.n >= 2 /\ dLast.quiet >= 1

\* ------------------------------------------------------------- throttle claims

\* C13: any two consecutive invocations of the callback are at least delay
\* ms apart, however late the host runs the timer callbacks.
InvocationsDelayApart ==
  tLast.kind # "none" => (tLast.gap = -1 \/ tLast.gap >= delay)

\* C14: on a host that runs timers at their due time, the calls that arrive
\* less than delay after the last invocation leave exactly one timer, that
\* of the most recent of them, due delay ms after that invocation; the
\* trailing invocation it makes carries that call's arguments and this.
HeldCallsCollapseIntoOne ==
  /\ Cardinality(pending) <= 1
  /\ held.n = 0 => pending = {}
  /\ held.n > 0 => \E t \in pending :
                     /\ [args |-> t.args, self |-> t.self] = held.p
                     /\ t.due = invokedAt + delay
  /\ tLast.kind = "trailing" => /\ tLast.held.n > 0
                                /\ tLast.ran = tLast.held.p
                                /\ tLast.gap = delay

\* a trailing invocation has just stood for two held calls
TrailingAfterTwoHeldCalls ==
  /\ tLast.kind = "trailing"
  /\ tLast.held.n >= 2
  /\ invokedAt = tLast.at /\ held.n = 0

\* ------------------------------------------------------------- Connect Four claims

\* C15: a move on a column whose topmost cell is occupied, and any move once
\* the game is over, leaves board, currentPlayer, winner and isGameOver as
\* they were.
BlockedMoveIsNoOp ==
  (gLast.type = "move" /\ gLast.blocked) => gLast.same

\* a move was dispatched on a full column while the game was still on
MovedOnFullColumn ==
  /\ gLast.type = "move" /\ gLast.blocked /\ gLast.same
  /\ ~isGameOver

\* four cells in a line, vertical, horizontal or diagonal, that hold p
Directions == {<<1, 0>>, <<0, 1>>, <<1, 1>>, <<-1, 1>>}
HasFour(b, p) ==
  \E c \in Cols, r \in Rows, d \in Directions :
    \A k \in 0 .. NUM_TO_WIN - 1 :
      /\ c + k * d[2] \in Cols
      /\ r + k * d[1] \in Rows
      /\ b[c + k * d[2]][r + k * d[1]] = p

Accepted == gLast.type = "move" /\ ~gLast.same

\* C16: after an accepted move the winner is the mover exactly when the board
\* holds four consecutive cells of the mover, and null otherwise; with no
\* winner, the board holds no four in a row of either player.
WinnerIffFourInRow ==
  /\ Accepted =>
       winner = (IF HasFour(board, gLast.mover) THEN gLast.mover ELSE Null)
  /\ winner = Null => \A p \in {1, 2} : ~HasFour(board, p)

\* player 2 has just won
PlayerTwoJustWon ==
  /\ Accepted
  /\ gLast.mover = 2 /\ winner = 2 /\ HasFour(board, 2)

EmptyCells(b) == {cr \in Cols \X Rows : b[cr[1]][cr[2]] = Null}

\* C17: the game is over exactly when there is a winner or the board is
\* full; a full board with no four in a row is a game over with no winner.
GameOverIffWonOrFull ==
  /\ isGameOver <=> (winner # Null \/ EmptyCells(board) = {})
  /\ (EmptyCells(board) = {} /\ \A p \in {1, 2} : ~HasFour(board, p))
       => (isGameOver /\ winner = Null)

\* a move has just filled the last cell and nobody won
BoardJustFilledWithoutWinner ==
  /\ Accepted
  /\ EmptyCells(board) = {}
  /\ isGameOver /\ winner = Null

Pieces(b, p) == Cardinality({cr \in Cols \X Rows : b[cr[1]][cr[2]] = p})

\* C18: an accepted move hands the turn to the other player, a rejected one
\* leaves it, a restart gives it to player 1; player 1 has as many pieces as
\* player 2 when it is player 1's turn and one more when it is player 2's.
TurnsAlternate ==
  /\ gLast.type = "move" =>
       currentPlayer = (IF gLast.same THEN gLast.mover ELSE 3 - gLast.mover)
  /\ gLast.type = "restart" => currentPlayer = 1
  /\ currentPlayer \in {1, 2}
  /\ Pieces(board, 1) - Pieces(board, 2) = (IF currentPlayer = 1 THEN 0 ELSE 1)

\* player 2 has just moved, so the turn is back with player 1
TurnBackWithPlayerOne ==
  /\ Accepted
  /\ gLast.mover = 2 /\ currentPlayer = 1
  /\ Pieces(board, 1) > 0

\* ------------------------------------------------------------- Wordle claims

\* C19: once a committed guess equals the solution or all six slots are
\* filled, no key event changes the committed guesses or the guess in
\* progress.
KeysIgnoredOnceOver ==
  (wLast.op = "key" /\ wLast.over) => ~wLast.changed

\* a key was pressed after the solution was guessed with slots to spare
KeyPressedAfterWin ==
  /\ wLast.op = "key" /\ wLast.over
  /\ \E i \in Slots : guesses[i] = solution
  /\ guesses[NUM_GUESSES] = JSNull

\* C20: while no solution is available, the word list being still awaited or
\* lost, a key event changes neither the guess in progress nor the committed
\* guesses.
KeysIgnoredWithoutSolution ==
  (wLast.op = "key" /\ wLast.unavailable) => ~wLast.changed

\* ------------------------------------------------------------------ Quiz claims

\* C21: a click on an answer of the question on display records it only when
\* that question has no recorded selection, and leaves every selection as it
\* was otherwise; through any clicks and navigation each question keeps the
\* first answer recorded for it.
FirstClickWins ==
  /\ \A i \in QuestionIndices :
       firstPick[i] # Undefined => selectedAnswers[i] = firstPick[i]
  /\ qLast.op = "answer" =>
       IF qLast.had = Undefined
         THEN selectedAnswers = [qLast.before EXCEPT ![qLast.q] = Prim(qLast.a)]
         ELSE selectedAnswers = qLast.before

\* C21 witness: after going back to an answered question, another answer of
\* it was clicked
ClickedOtherAnswerAfterBack ==
  /\ qLast.op = "answer"
  /\ qLast.had # Undefined
  /\ qLast.had # Prim(qLast.a)
  /\ qLast.q = 0
  /\ selectedAnswers[1] # Undefined

\* C22: with n >= 1 loaded questions the current index stays within 0..n-1
\* and every question before the current one has a recorded selection.
IndexInRangeBehindAnswered ==
  questions >= 1 =>
    /\ currentQuestionIndex \in 0 .. questions - 1
    /\ \A i \in 0 .. currentQuestionIndex - 1 : selectedAnswers[i] # Undefined

\* C22 witness: the last of three questions is on display after Next, Back
\* and Next again
OnLastQuestionAfterBack ==
  /\ questions = MaxQuestions
  /\ MaxQuestions >= 3
  /\ currentQuestionIndex = questions - 1
  /\ qLast.op = "next"
  /\ selectedAnswers[currentQuestionIndex] # Undefined

\* ---------------------------------------------------------------- Memory claims

\* the tiles of a sequence, and whether it names no tile twice
TilesOf(s) == {s[i] : i \in 1 .. Len(s)}
NoDuplicates(s) == Cardinality(TilesOf(s)) = Len(s)

\* C23: a click is ignored when two tiles are selected, when the tile is
\* selected or when it is matched; at most two tiles are selected, they are
\* distinct, none of them is matched, and the matched tiles hold no duplicate.
BlockedClicksIgnored ==
  /\ (yLast.op = "click" /\ yLast.blocked) =>
       (yLast.same /\ matchedTiles = yLast.matched)
  /\ Len(selectedTiles) <= 2
  /\ NoDuplicates(selectedTiles)
  /\ TilesOf(selectedTiles) \cap TilesOf(matchedTiles) = {}
  /\ NoDuplicates(matchedTiles)

\* C23 witness: a matched tile was clicked while one other tile was selected
ClickedMatchedTile ==
  /\ yLast.op = "click"
  /\ yLast.blocked
  /\ Len(selectedTiles) = 1
  /\ Len(matchedTiles) >= 2

\* two tiles of different colours are selected
Mismatch ==
  /\ Len(selectedTiles) = 2
  /\ tiles[selectedTiles[1]] # tiles[selectedTiles[2]]

\* C24: a selection of two different colours is eventually cleared, by a
\* timer callback that leaves the matched tiles alone, unless the component
\* unmounts first; a pending timer belongs to the selection on display of a
\* mounted component, so its callback clears no other selection.
MismatchClearedByItsTimer ==
  /\ [](memoryTimer # NoTimer =>
          mounted /\ memoryTimer.for = selectedTiles /\ Mismatch)
  /\ [](yLast.op = "timeout" =>
          yLast.for # <<>> /\ matchedTiles = yLast.matched
          /\ (selectedTiles = <<>> \/ ~mounted))
  /\ [][Mismatch /\ selectedTiles' # selectedTiles =>
          memoryTimer # NoTimer /\ memoryTimer.left = 0
          /\ memoryTimer' = NoTimer /\ selectedTiles' = <<>>]_vars
  /\ ((Mismatch /\ mounted) ~> (selectedTiles = <<>> \/ ~mounted))

\* C24 witness: the timer callback has just cleared a mismatched selection
\* made after a pair was matched
TimerClearedMismatch ==
  /\ yLast.op = "timeout"
  /\ yLast.for # <<>>
  /\ tiles[yLast.for[1]] # tiles[yLast.for[2]]
  /\ selectedTiles = <<>>
  /\ Len(matchedTiles) = 2
  /\ mounted

\* --------------------------------------------------------- Crypto Prices claims

\* C25: in every state, also while a request is in flight, Next is enabled
\* only if a page exists after the current one and Back only if the page
\* number is above 0, and the page number stays within 0 and the last page.
PagingStaysWithinPages ==
  /\ ~CryptoNextDisabled => currentPage < lastPage
  /\ ~CryptoBackDisabled => currentPage > 0
  /\ currentPage \in 0 .. lastPage

\* ------------------------------------------------------------ Phone Input claims

\* "(ddd) ddd-dddd" filled with digits d and cut right after its last digit
PhoneLayout(d) ==
  LET n     == IF Len(d) < 10 THEN Len(d) ELSE 10
      slot  == <<2, 3, 4, 7, 8, 9, 11, 12, 13, 14>>
      frame == <<"(", "d", "d", "d", ")", " ", "d", "d", "d", "-",
                 "d", "d", "d", "d">>
  IN  IF n = 0 THEN <<>>
      ELSE [i \in 1 .. slot[n] |->
              IF \E k \in 1 .. n : slot[k] = i
                THEN d[CHOOSE k \in 1 .. n : slot[k] = i]
                ELSE frame[i]]

\* C26: the stored value is a fixed point of format; after a change event it
\* is the first at most 10 digits of the raw text laid out as
\* "(ddd) ddd-dddd" and cut after the last digit, and Submit is enabled iff
\* the value has length 14, that is iff the raw text held 10 digits or more;
\* after a submit click the value is the empty string.
ValueIsFormattedDigits ==
  /\ Format(inputValue.s) = inputValue.s
  /\ ~SubmitDisabled <=> Len(inputValue.s) = 14
  /\ iLast.op = "change" =>
       /\ inputValue.s = PhoneLayout(iLast.digits)
       /\ ~SubmitDisabled <=> Len(iLast.digits) >= 10
  /\ iLast.op = "submit" => inputValue = EmptyString

\* C26 witness: a text with more than 10 digits was entered
ElevenDigitsEntered ==
  /\ iLast.op = "change"
  /\ Len(iLast.digits) > 10
  /\ ~SubmitDisabled

\* ----------------------------------------------------------- EventTarget claims

\* C27: dispatchEvent(name) on a target calls exactly the callbacks registered
\* on that target under that name, each once; removing a callback that was
\* never added and dispatching a name without callbacks change nothing and
\* do not raise.
DispatchCallsRegisteredOnce ==
  /\ eLast.op = "dispatch" =>
       /\ {eLast.called[i] : i \in 1 .. Len(eLast.called)}
            = registered[eLast.target][eLast.name]
       /\ Len(eLast.called) = Cardinality(registered[eLast.target][eLast.name])
  /\ (eLast.op \in {"remove", "dispatch"} /\ ~eLast.had) =>
       (eLast.same /\ ~eLast.threw /\ eLast.called = <<>>)

\* C27 witness: a dispatch called one callback while the other target holds
\* a different callback under the same name and this target holds another
\* one under the other name
DispatchedAmongOthers ==
  /\ eLast.op = "dispatch"
  /\ Len(eLast.called) = 1
  /\ \E t \in Targets \ {eLast.target} :
       registered[t][eLast.name] \ registered[eLast.target][eLast.name] # {}
  /\ \E name \in EventNames \ {eLast.name} :
       registered[eLast.target][name]
         \ registered[eLast.target][eLast.name] # {}

\* -------------------------------------------------------------- Tier List claims

\* the places (zone, position) where an item is a child
PlacesOf(ch, item) ==
  {<<z, k>> \in DropZones \X (1 .. Cardinality(Items)) :
     k <= Len(ch[z]) /\ ch[z][k] = item}

\* the zones after only item moved to the end of zone
OnlyMoved(before, item, zone) ==
  /\ children[zone] = before[zone] \o <<item>>
  /\ \A z \in DropZones \ {zone} :
       /\ Len(children[z]) = Len(before[z])
                               - Cardinality({k \in 1 .. Len(before[z]) :
                                                before[z][k] = item})
       /\ \A i, j \in Items \ {item} :
            (\E a, b \in 1 .. Len(before[z]) :
               a < b /\ before[z][a] = i /\ before[z][b] = j)
            <=> (\E a, b \in 1 .. Len(children[z]) :
                   a < b /\ children[z][a] = i /\ children[z][b] = j)
       /\ \A i \in Items \ {item} :
            (\E a \in 1 .. Len(before[z]) : before[z][a] = i)
            <=> (\E a \in 1 .. Len(children[z]) : children[z][a] = i)

\* C28: every item is a child of exactly one drop zone; a drop on the zone
\* that holds the dragged item and a double-click on an unranked item change
\* no zone; any other drop moves only the dragged item, to the end of the
\* target zone, and any other double-click moves only that item, to the end
\* of the unranked zone.
OnlyTheItemMovesToTheEnd ==
  /\ \A item \in Items : Cardinality(PlacesOf(children, item)) = 1
  /\ (lLast.op \in {"drop", "dblclick"} /\ lLast.item # Undefined) =>
       IF \E k \in 1 .. Len(lLast.before[lLast.zone]) :
            lLast.before[lLast.zone][k] = lLast.item.n
         THEN children = lLast.before
         ELSE OnlyMoved(lLast.before, lLast.item.n, lLast.zone)
  /\ lLast.item = Undefined => children = lLast.before

\* C28 witness: an item was dropped on the zone that already holds it, in
\* front of another item
DroppedOnOwnZone ==
  /\ lLast.op = "drop"
  /\ lLast.item # Undefined
  /\ lLast.zone # Unranked
  /\ Len(children[lLast.zone]) >= 2
  /\ children[lLast.zone][1] = lLast.item.n
  /\ children = lLast.before

\* -------------------------------------------------------------- Stopwatch claims

\* C29: the buttons match the state machine: idle has start enabled, stop
\* and reset disabled and the display "00:00:000"; running has stop enabled,
\* start and reset disabled; paused has start and reset enabled, stop
\* disabled; reset from paused returns to idle.
ButtonsMatchStateMachine ==
  /\ phase = "idle" =>
       /\ ~startDisabled /\ stopDisabled /\ resetDisabled
       /\ textContent = Str(<<"0", "0", ":", "0", "0", ":", "0", "0", "0">>)
  /\ phase = "running" => startDisabled /\ ~stopDisabled /\ resetDisabled
  /\ phase = "paused" => ~startDisabled /\ stopDisabled /\ ~resetDisabled

\* -------------------------------------------------------------- Typeahead claims

\* C30: a fetch is issued only when 500 ms have passed since the most recent
\* input event and that event left the field non-empty, and it requests the
\* text the field holds when the timer fires; every input event cancels the
\* fetch scheduled before it, and one that leaves the field empty schedules
\* none: a pending timer is the one of the most recent input event.
FetchOnlyAfterQuietPeriod ==
  /\ aLast.op = "fetch" =>
       /\ aLast.quiet >= 500
       /\ aLast.input # <<>>
       /\ aLast.text = aLast.field
  /\ Cardinality(pending) <= 1
  /\ pending # {} =>
       /\ lastInput.n > 0
       /\ lastInput.text # <<>>
       /\ \A t \in pending : t.due = lastInput.at + 500

\* C30 witness: a fetch was issued after an input event that followed
\* another one within the quiet period
FetchedAfterSecondKeystroke ==
  /\ aLast.op = "fetch"
  /\ aLast.text = <<"a", "b">>
  /\ lastInput.n = 2
  /\ nextId = 3
  /\ lastInput.at - StartTime < 500

\* ------------------------------------------------------------- Todo List claims

\* C31: a click on the enabled add button appends exactly one entry, a
\* heading with the text the input held and a delete control, to the end of
\* the list, leaves the earlier entries as they were, clears the input and
\* disables the add button.
AddAppendsOneEntry ==
  (oLast.op = "add" /\ oLast.enabled) =>
    /\ todoListItems = Append(oLast.items, NewItemElement(oLast.value))
    /\ todoInputValue = <<>>
    /\ addButtonDisabled

\* ------------------------------------------------------- Infinite Scroll claims

\* C32: a scroll event issues a request only when none is pending and no
\* response with hasNext = false has been received; at most one request is
\* in flight at any time, and none once the final page has been received.
AtMostOneFetchAndNoneAfterLast ==
  /\ Len(scrollRequests) <= 1
  /\ (uLast.op = "scroll" /\ uLast.fetched) =>
       (~uLast.wasPending /\ ~uLast.wasFinal)
  /\ finalReceived => scrollRequests = <<>>

\* a scroll to the bottom has just requested the second page
ScrolledForSecondPage ==
  /\ uLast.op = "scroll" /\ uLast.fetched
  /\ Len(feed) = PageLimit
  /\ scrollRequests = <<CreateTestimonialUrl(Prim(PageLimit))>>

\* C39: once a request has been rejected or its response could not be read,
\* the gate stays closed: the feed and the cursor stay as they were and no
\* scroll event issues a request.
FailureClosesGateForGood ==
  failedWith # NoFailure =>
    /\ ~canFetchOnScroll
    /\ scrollRequests = <<>>
    /\ feed = failedWith.feed
    /\ afterID = failedWith.afterID

\* a scroll to the bottom after the request for the second page failed at
\* response.json()
ScrolledAfterFailure ==
  /\ failedWith # NoFailure /\ failedWith.at = "json"
  /\ Len(feed) = PageLimit
  /\ uLast.op = "scroll" /\ uLast.fromBottom = 0 /\ ~uLast.fetched

\* ---------------------------------------------------------------- myCall claims

\* C33: after fn.myCall(obj, ...args), whether fn returned or threw, obj
\* holds no property myCall installed: its own keys, symbols included, are
\* those it had before the call, apart from what fn itself set or deleted.
MyCallLeavesNoProperty ==
  bLast.op = "myCall" =>
    /\ targetSymbols = bLast.symbols
    /\ targetNames = CallBody([names |-> bLast.names], bLast.fn).names
                     \/ bLast.outcome = "TypeError"

\* -------------------------------------------------------- test framework claims

\* the assertions of the suite that fail, as <<case, assertion>>
FailingAssertions ==
  {p \in (1 .. MaxCases) \X (1 .. MaxAssertions) :
     /\ p[1] <= Len(suiteFunction) /\ p[2] <= Len(suiteFunction[p[1]])
     /\ ToBe(suiteFunction[p[1]][p[2]].actual,
             suiteFunction[p[1]][p[2]].expected).thrown}

\* p comes after q in the order the suite function runs its assertions
RunsAfter(p, q) == p[1] > q[1] \/ (p[1] = q[1] /\ p[2] > q[2])

ConsoleLines(level, text) ==
  {i \in 1 .. Len(console) : console[i].level = level /\ console[i].text = text}

\* C34: once an assertion has failed, no later assertion of its case and no
\* later case of the suite runs; the suite logs exactly one failure line,
\* naming the failing case and its message, and no suite success line; and
\* describe() returns instead of throwing.
FailureStopsTheSuite ==
  \A q \in assertionsRun :
    q \in FailingAssertions =>
      /\ \A p \in assertionsRun : ~RunsAfter(p, q)
      /\ \A c \in casesRun : c <= q[1]
      /\ testStage = "returned"
      /\ \E i \in 1 .. Len(console) :
           /\ ConsoleLines("error", "failed running test suite") = {i}
           /\ console[i].name = q[1]
           /\ console[i].message = ToBe(suiteFunction[q[1]][q[2]].actual,
                                        suiteFunction[q[1]][q[2]].expected)
      /\ ConsoleLines("log", "successfully completed test suite") = {}

\* the first assertion of a first case of two has failed, after which both
\* a second assertion and a second case were left
FailedBeforeLaterCase ==
  /\ <<1, 1>> \in assertionsRun \cap FailingAssertions
  /\ Len(suiteFunction) = 2
  /\ Len(suiteFunction[1]) = 2 /\ Len(suiteFunction[2]) > 0
  /\ testStage = "returned"

\* ------------------------------------------------------------ deepEquals claims

\* structural equality: the same kind; NaN equal to NaN; arrays of one
\* length equal element by element; records with one key set and equal
\* values per key; null equal to null only
RECURSIVE StructurallyEqual(_, _)
StructurallyEqual(a, b) ==
  /\ a.k = b.k
  /\ CASE a.k = "prim" -> a.n = b.n
       [] a.k = "string" -> a.s = b.s
       [] a.k = "array" ->
            /\ Len(a.items) = Len(b.items)
            /\ \A i \in 1 .. Len(a.items) :
                 StructurallyEqual(a.items[i], b.items[i])
       [] a.k = "object" ->
            /\ DOMAIN a.vals = DOMAIN b.vals
            /\ \A key \in DOMAIN a.vals :
                 StructurallyEqual(a.vals[key], b.vals[key])
       [] OTHER -> TRUE

\* C35: deepEquals(a, b) is true exactly when a and b are structurally
\* equal, and deepEquals(b, a) gives the same result.
DeepEqualsIsStructuralEquality ==
  compared.called =>
    /\ compared.forth <=> StructurallyEqual(firstValue, secondValue)
    /\ compared.back = compared.forth

\* two records with the same keys in different orders, one value NaN, have
\* been compared
ComparedReorderedRecords ==
  /\ compared.called
  /\ firstValue.k = "object" /\ secondValue.k = "object"
  /\ firstValue.keys = <<"a", "b">> /\ secondValue.keys = <<"b", "a">>
  /\ firstValue.vals["a"] = NotANumber /\ secondValue.vals["a"] = NotANumber
  /\ compared.forth /\ ~sameObject

\* ----------------------------------------------------------------------
\* Connect Four: the shape of the board

\* the occupied cells of every column lie below its empty cells (row 0 is
\* the top of a column)
GravityConsistent(b) ==
  \A c \in Cols : \A r \in Rows :
    b[c][r] # Null => \A q \in Rows : q > r => b[c][q] # Null

\* the lowest empty cell of a column that is not full
LowestEmpty(col) ==
  CHOOSE r \in Rows : col[r] = Null /\ \A q \in Rows : q > r => col[q] # Null

\* a move on column c that the reducer accepted puts the mover on the lowest
\* empty cell of c and changes nothing else
AcceptedMoveFillsLowestEmpty ==
  \A c \in Cols :
    (Move(c) /\ ~gLast'.same) =>
      board' = [board EXCEPT ![c][LowestEmpty(board[c])] = currentPlayer]

\* C36: every reachable board has 7 columns of 6 cells and is gravity
\* consistent (in each column the empty cells lie above the occupied ones),
\* and an accepted move changes exactly one cell, the lowest empty cell of
\* the chosen column, to the moving player.
BoardKeepsGravity ==
  /\ [](/\ DOMAIN board = 0 .. 6
        /\ \A c \in DOMAIN board : DOMAIN board[c] = 0 .. 5
        /\ GravityConsistent(board))
  /\ [][AcceptedMoveFillsLowestEmpty]_vars

\* a move has just been accepted on a column that already held a piece
MovedOntoAPiece ==
  /\ Accepted
  /\ \E c \in Cols, r \in Rows :
       /\ r < NUM_ROW - 1
       /\ board[c][r] = gLast.mover
       /\ board[c][r + 1] # Null
       /\ r = 0 \/ board[c][r - 1] = Null
       /\ currentPlayer # gLast.mover

\* ----------------------------------------------------------------------
\* Crypto Prices: overlapping page requests

\* C37: whenever no page request is in flight and none has failed, the coin
\* list and the has-next flag on display are those of the response for the
\* current page number, whatever the order the responses arrived in.
SettledDisplayIsCurrentPage ==
  (InFlight(requests) = 0 /\ ~fetchFailed) =>
    (coins = currentPage /\ isNextPage = HasNext(currentPage))

\* ----------------------------------------------------------------------
\* Typeahead: responses of requests already in flight

\* the field holds a glossary term only after a click on a suggestion: no
\* typed text is a whole term
FilledByClick == typeaheadValue.s \in Glossary

\* C38: whenever the field is empty and no request is in flight the
\* suggestions list is empty, and so it is once a suggestion has been
\* clicked and every request has resolved.
NoSuggestionsForEmptyOrClickedField ==
  /\ (typeaheadValue.s = <<>> /\ requested = {}) => suggestionsList = {}
  /\ (FilledByClick /\ requested = {}) => suggestionsList = {}

\* ----------------------------------------------------------------------
\* Promise combinators: settlement of myAll and myAllSettled

\* the call has returned, every input has settled and the event loop has
\* nothing left to run
CombinatorAtRest ==
  /\ called \in {"myAll", "myAllSettled"}
  /\ \A i \in 1 .. nInputs : np[i].st # PENDING
  /\ ~task /\ jobs = <<>>

\* C40: the promises of myAll and myAllSettled settle once every input has
\* settled; for an empty list they fulfil with an empty array. Stated on the
\* states the event loop comes to rest in: there the result is settled.
SettlesWhenInputsSettle ==
  CombinatorAtRest =>
    /\ result.st # PENDING
    /\ nInputs = 0 => (result.st = FULFILLED /\ result.val.k = "array"
                        /\ result.val.len = 0)

\* the same for the lists that hold an input
SettlesWhenNonEmptyInputsSettle ==
  (CombinatorAtRest /\ nInputs > 0) => result.st # PENDING

====
